---- MODULE Spec2Model ----
(***************************************************************************)
(* Model of the CSV / IIF / QBO exporter.                                  *)
(*                                                                         *)
(*   - QBSyncService (electron/services/qbSync.service.cjs, stored in      *)
(*     src/electron/services/qbAuth.service.cjs from line 111 on):         *)
(*     refreshMappings, syncJournalEntries, syncBills, findAccountId;      *)
(*   - the ipcMain handlers 'qb:refresh-mappings' and 'qb:sync'            *)
(*     (src/services/csvProcessor.ts from line 282 on);                    *)
(*   - the converter screen's connect / refresh / push handlers            *)
(*     (src/unnamed/part_001);                                             *)
(*   - groupTransactionsByDate (src/services/csvProcessor.ts).             *)
(*                                                                         *)
(* A JavaScript string is a sequence of one-character strings, so that     *)
(* trim and startsWith are computed and not assumed.                       *)
(***************************************************************************)
EXTENDS Integers, Sequences, FiniteSets, TLC

(***************************************************************************)
(* Bounds of the model.                                                    *)
(***************************************************************************)
\* longest list of rows handed to a sync pass
MaxRows == 3
\* number of 'qb:refresh-mappings' invocations that may be pending at once
MaxRefresh == 2
\* longest list of accounts (vendors) one remote query returns
MaxResp == 2
\* most keys of an account map handed to findAccountId
MaxKeys == 2
\* longest label handed to findAccountId
MaxLabel == 3
\* longest transaction list handed to groupTransactionsByDate
MaxTx == 2
\* most rows in the files of a batch handed to parseShopifyCSV / parsePaypalCSV
MaxBatchRows == 3

\* most lines of a document given to ConverterService.convert, after the
\* column declarations it starts with
MaxLines == 3

\* number of files given to the converter screen
MaxFileTasks == 2

(***************************************************************************)
(* JavaScript strings and objects.                                         *)
(***************************************************************************)
Range(s) == { s[i] : i \in 1..Len(s) }

SeqsUpTo(S, n) == UNION { [1..k -> S] : k \in 0..n }

\* String.prototype.startsWith
StartsWith(s, p) == Len(p) <= Len(s) /\ SubSeq(s, 1, Len(p)) = p

\* the white space String.prototype.trim removes, of the characters in use
WhiteSpace == {" ", "\t"}

RECURSIVE TrimStart(_)
TrimStart(s) ==
  IF s # <<>> /\ Head(s) \in WhiteSpace THEN TrimStart(Tail(s)) ELSE s

RECURSIVE TrimEnd(_)
TrimEnd(s) ==
  IF s # <<>> /\ s[Len(s)] \in WhiteSpace
  THEN TrimEnd(SubSeq(s, 1, Len(s) - 1))
  ELSE s

\* String.prototype.trim
Trim(s) == TrimEnd(TrimStart(s))

DigitVal(c) ==
  CASE c = "0" -> 0 [] c = "1" -> 1 [] c = "2" -> 2 [] c = "3" -> 3
    [] c = "4" -> 4 [] c = "5" -> 5 [] c = "6" -> 6 [] c = "7" -> 7
    [] c = "8" -> 8 [] c = "9" -> 9

Digits == {"0", "1", "2", "3", "4", "5", "6", "7", "8", "9"}

\* a property key that is a canonical array index ("0", "7", "12"; not "07")
IsArrayIndex(s) ==
  /\ s # <<>>
  /\ Len(s) <= 9
  /\ \A i \in 1..Len(s) : s[i] \in Digits
  /\ (Len(s) > 1 => s[1] # "0")

RECURSIVE NumVal(_)
NumVal(s) ==
  IF s = <<>> THEN 0
  ELSE 10 * NumVal(SubSeq(s, 1, Len(s) - 1)) + DigitVal(s[Len(s)])

\* An object used as a dictionary is the sequence of its own properties
\* [k |-> key, v |-> value] in the order in which the keys were created.
ObjKeysCreated(obj) == [i \in 1..Len(obj) |-> obj[i].k]

ObjHas(obj, key) == \E i \in 1..Len(obj) : obj[i].k = key

ObjGet(obj, key) == obj[CHOOSE i \in 1..Len(obj) : obj[i].k = key].v

\* obj[key] = value: an existing key keeps its place, a new key goes last
ObjSet(obj, key, value) ==
  IF ObjHas(obj, key)
  THEN [i \in 1..Len(obj) |->
          IF obj[i].k = key THEN [k |-> key, v |-> value] ELSE obj[i]]
  ELSE Append(obj, [k |-> key, v |-> value])

RECURSIVE SortIndexKeys(_)
SortIndexKeys(S) ==
  IF S = {} THEN <<>>
  ELSE LET m == CHOOSE x \in S : \A y \in S : NumVal(x) <= NumVal(y)
       IN  <<m>> \o SortIndexKeys(S \ {m})

\* Object.keys / Object.entries order (OrdinaryOwnPropertyKeys): the keys
\* that are array indices in ascending numeric order, then the other keys in
\* creation order.
ObjectKeys(obj) ==
  LET created == ObjKeysCreated(obj)
  IN  SortIndexKeys({ k \in Range(created) : IsArrayIndex(k) })
        \o SelectSeq(created, LAMBDA k : ~IsArrayIndex(k))


(***************************************************************************)
(* Values of the sync subsystem.                                           *)
(***************************************************************************)
\* findAccountId's "return null"; also the value of a missing property.
\* Identifiers of the remote ledger are the non-empty strings "1", "2", ...,
\* modelled by the positive numbers.
Null == 0

\* the value of a property a row does not have
Undefined == <<"undefined">>

\* What the remote ledger may hold: Account records (Name, Id) and Vendor
\* records (DisplayName, Id) as returned by the two queries of a refresh.
AccountCatalogue ==
  { [Name |-> <<"1">>, Id |-> 1], [Name |-> <<"1", "2", " ">>, Id |-> 2] }

VendorCatalogue == { [DisplayName |-> <<" ", "A", "1">>, Id |-> 7] }

\* QueryResponse.Account / QueryResponse.Vendor of one query
AccountResponses == SeqsUpTo(AccountCatalogue, MaxResp)

VendorResponses == SeqsUpTo(VendorCatalogue, MaxResp)

Modes == {"GL", "AP"}

\* journal numbers: a key that is no array index and two that are, "12"
\* below "2" as text and above it as a number
DocNos == { <<"A">>, <<"2">>, <<"1", "2">> }

\* bill numbers
BillNos == { <<"A">>, <<"2">> }

AccountLabels == { <<"1">>, <<"B">> }

Suppliers == { <<"A">>, <<"A", "1", " ">> }

\* rows as convertGL emits them (no BillNo, no Supplier) and as convertBills
\* emits them (BillNo = JournalNo = the document number of the TRNS line)
GLRows ==
  { [JournalNo |-> d, BillNo |-> Undefined, Supplier |-> Undefined,
     Account |-> a] : d \in DocNos, a \in AccountLabels }

APRows ==
  { [JournalNo |-> d, BillNo |-> d, Supplier |-> s, Account |-> a] :
      d \in BillNos, s \in Suppliers, a \in AccountLabels }

\* the rows the converter screen holds for a push, by conversion mode
RowLists(mode) ==
  SeqsUpTo(IF mode = "AP" THEN APRows ELSE GLRows, MaxRows) \ { <<>> }

\* the methods class QBSyncService defines
QBSyncServiceMethods ==
  { "constructor", "refreshMappings", "syncJournalEntries", "syncBills",
    "findAccountId", "formatDate" }

VARIABLES
  accountMap,     \* QBSyncService.accountMap: Name -> Id
  vendorMap,      \* QBSyncService.vendorMap: DisplayName -> Id
  refresh,        \* the pending 'qb:refresh-mappings' invocations
  statusPending,  \* the 'qb:get-status' call of the mount effect is unanswered
  isConnected,    \* IIFConverter state
  mappingStats,   \* IIFConverter state: the counts of the last refresh
  syncResult,     \* IIFConverter state: syncResult / errorMessage of a push
  pass,           \* the sync pass of the 'qb:sync' invocation
  inflight,       \* document requests handed to makeRequest and not settled
  sent            \* every document request of the pass, in order of issue

syncVars ==
  << accountMap, vendorMap, refresh, statusPending, isConnected, mappingStats,
     syncResult, pass, inflight, sent >>

VARIABLES
  lookup          \* a call findAccountId(name) and what it returned

VARIABLES
  grouper         \* a call of groupTransactionsByDate: its locals and result

VARIABLES
  ingest          \* a call of parseShopifyCSV / parsePaypalCSV: its locals,
                  \* its file tasks and how its promise settled

VARIABLES
  converter       \* a call of ConverterService.convert and how it ended

vars == << syncVars, lookup, grouper, ingest, converter >>

(***************************************************************************)
(* QBSyncService.                                                          *)
(***************************************************************************)
RECURSIVE StoreAccounts(_, _)
\* accData.QueryResponse.Account.forEach(acc => accountMap[acc.Name.trim()] = acc.Id)
StoreAccounts(map, resp) ==
  IF resp = <<>> THEN map
  ELSE StoreAccounts(ObjSet(map, Trim(Head(resp).Name), Head(resp).Id),
                     Tail(resp))

RECURSIVE StoreVendors(_, _)
\* venData.QueryResponse.Vendor.forEach(ven => vendorMap[ven.DisplayName.trim()] = ven.Id)
StoreVendors(map, resp) ==
  IF resp = <<>> THEN map
  ELSE StoreVendors(ObjSet(map, Trim(Head(resp).DisplayName), Head(resp).Id),
                    Tail(resp))

\* the position of the first element Array.prototype.find accepts, 0 if none
FindFirst(keys, Test(_)) ==
  LET hits == { i \in 1..Len(keys) : Test(keys[i]) }
  IN  IF hits = {} THEN 0 ELSE CHOOSE i \in hits : \A j \in hits : i <= j

\* findAccountId with the prefix search tried before the exact match
findAccountId_PrefixFirst(map, name) ==
  LET cleanName == Trim(name)
      keys == ObjectKeys(map)
      found == FindFirst(keys,
                 LAMBDA k : StartsWith(k, cleanName) \/ StartsWith(cleanName, k))
  IN  IF found # 0 THEN ObjGet(map, keys[found]) ELSE Null

findAccountId(map, name) ==
  LET cleanName == Trim(name)
      keys == ObjectKeys(map)
      found == FindFirst(keys,
                 LAMBDA k : StartsWith(k, cleanName) \/ StartsWith(cleanName, k))
  IN  IF ObjHas(map, cleanName) THEN ObjGet(map, cleanName)
      ELSE IF found # 0 THEN ObjGet(map, keys[found])
      ELSE Null

\* this.vendorMap[supplierName.trim()]
VendorLookup(map, supplierName) ==
  IF ObjHas(map, Trim(supplierName)) THEN ObjGet(map, Trim(supplierName))
  ELSE Null

RECURSIVE GroupInto(_, _, _, _)
\* entries.forEach(e => { if (!groups[e[field]]) groups[e[field]] = [];
\*                        groups[e[field]].push(e); })
\* A row is named by its position in entries.
GroupInto(groups, entries, field, i) ==
  IF i > Len(entries) THEN groups
  ELSE LET key == entries[i][field]
           old == IF ObjHas(groups, key) THEN ObjGet(groups, key) ELSE <<>>
       IN  GroupInto(ObjSet(groups, key, Append(old, i)), entries, field, i + 1)

RECURSIVE GroupIntoRuns(_, _, _, _)
GroupIntoRuns(groups, entries, field, i) ==
  IF i > Len(entries) THEN groups
  ELSE LET key == entries[i][field]
           old == IF i > 1 /\ entries[i - 1][field] = key
                  THEN ObjGet(groups, key) ELSE <<>>
       IN  GroupIntoRuns(ObjSet(groups, key, Append(old, i)), entries, field,
                         i + 1)

\* GroupRows with a group started anew whenever the key changes from one
\* row to the next
GroupRows_Runs(entries, field) == GroupIntoRuns(<<>>, entries, field, 1)

GroupRows(entries, field) == GroupInto(<<>>, entries, field, 1)

\* LinesOf with the rows of unresolved accounts left out instead of thrown on
LinesOf_SkipUnresolved(map, entries, rows) ==
  LET kept == SelectSeq(rows,
                LAMBDA i : findAccountId(map, entries[i].Account) # Null)
  IN  [ok |-> TRUE,
       Line |-> [n \in 1..Len(kept) |->
                   [row |-> kept[n],
                    AccountRef |-> findAccountId(map, entries[kept[n]].Account)]]]

\* The Line array of a document: rows.map(row => ...), which throws at the
\* first row whose account findAccountId does not find.
LinesOf(map, entries, rows) ==
  LET bad == FindFirst(rows,
               LAMBDA i : findAccountId(map, entries[i].Account) = Null)
  IN  IF bad # 0
      THEN [ok |-> FALSE,
            message |-> <<"Account", entries[rows[bad]].Account, "not found">>]
      ELSE [ok |-> TRUE,
            Line |-> [n \in 1..Len(rows) |->
                        [row |-> rows[n],
                         AccountRef |->
                           findAccountId(map, entries[rows[n]].Account)]]]

\* the try block of syncJournalEntries up to the request
JournalPayload(map, entries, journalNo, rows) ==
  LET lines == LinesOf(map, entries, rows)
  IN  IF lines.ok
      THEN [ok |-> TRUE,
            payload |-> [DocNumber |-> journalNo, VendorRef |-> Null,
                         Line |-> lines.Line]]
      ELSE lines

\* the try block of syncBills up to the request
BillPayload(accMap, venMap, entries, billNo, rows) ==
  LET supplierName == entries[rows[1]].Supplier
      vendorId == VendorLookup(venMap, supplierName)
      lines == LinesOf(accMap, entries, rows)
  IN  IF supplierName = Undefined
      THEN [ok |-> FALSE, message |-> <<"TypeError", "trim">>]
      ELSE IF vendorId = Null
      THEN [ok |-> FALSE, message |-> <<"Vendor", supplierName, "not found">>]
      ELSE IF lines.ok
      THEN [ok |-> TRUE,
            payload |-> [DocNumber |-> billNo, VendorRef |-> vendorId,
                         Line |-> lines.Line]]
      ELSE lines


(***************************************************************************)
(* The converter screen and the ipcMain handlers.                          *)
(***************************************************************************)
ZeroResults == [success |-> 0, failed |-> 0, errors |-> <<>>]

\* syncResult = null and errorMessage = null
NoReply == [success |-> FALSE, results |-> ZeroResults, error |-> <<>>]

IdlePass ==
  [pc |-> "idle", mode |-> "GL", data |-> <<>>, groups |-> <<>>,
   keys |-> <<>>, idx |-> 0, results |-> ZeroResults, documents |-> 0]

\* mappingStats = null
NoStats == [accounts |-> 0 - 1, vendors |-> 0 - 1]

\* A 'qb:refresh-mappings' invocation: where refreshMappings stands, the
\* names its account query and its vendor query returned (trimmed), and
\* the counts it returns.
IdleRefresh == [pc |-> "idle", acc |-> {}, ven |-> {}, counts |-> NoStats]

\* the slot a new 'qb:refresh-mappings' invocation takes
FreeSlot == CHOOSE i \in 1..MaxRefresh :
              /\ refresh[i].pc = "idle"
              /\ \A j \in 1..MaxRefresh : refresh[j].pc = "idle" => i <= j

\* IIFConverter.refreshMappings up to its await: ipcRenderer.invoke of
\* 'qb:refresh-mappings', whose handler calls qbSync.refreshMappings, which
\* issues the account query and suspends.
refreshMappings ==
  /\ \E i \in 1..MaxRefresh : refresh[i].pc = "idle"
  /\ refresh' = [refresh EXCEPT ![FreeSlot] =
                   [IdleRefresh EXCEPT !.pc = "accounts"]]

\* the answer to the 'qb:get-status' call of the mount effect
GetStatusReply(connected) ==
  /\ statusPending
  /\ statusPending' = FALSE
  /\ IF connected
     THEN isConnected' = TRUE /\ refreshMappings
     ELSE UNCHANGED << isConnected, refresh >>
  /\ UNCHANGED << accountMap, vendorMap, mappingStats, syncResult, pass,
                  inflight, sent, lookup, grouper, ingest, converter >>

\* the 'qb:auth-success' listener
handleAuthSuccess ==
  /\ isConnected' = TRUE
  /\ refreshMappings
  /\ UNCHANGED << accountMap, vendorMap, statusPending, mappingStats,
                  syncResult, pass, inflight, sent, lookup, grouper, ingest, converter >>

\* QBSyncService.refreshMappings from the account query's answer to the
\* second await
AccountsReply(i, resp) ==
  /\ refresh[i].pc = "accounts"
  /\ accountMap' = StoreAccounts(accountMap, resp)
  /\ refresh' = [refresh EXCEPT ![i] =
                   [IdleRefresh EXCEPT
                      !.pc = "vendors",
                      !.acc = { Trim(resp[n].Name) : n \in 1..Len(resp) }]]
  /\ UNCHANGED << vendorMap, statusPending, isConnected, mappingStats, syncResult, pass,
                  inflight, sent, lookup, grouper, ingest, converter >>

\* QBSyncService.refreshMappings from the vendor query's answer to its
\* return, and the handler's answer { success: true, counts }
VendorsReply(i, resp) ==
  /\ refresh[i].pc = "vendors"
  /\ vendorMap' = StoreVendors(vendorMap, resp)
  /\ refresh' = [refresh EXCEPT ![i] =
                   [pc |-> "done", acc |-> refresh[i].acc,
                    ven |-> { Trim(resp[n].DisplayName) : n \in 1..Len(resp) },
                    counts |-> [accounts |-> Len(accountMap),
                                vendors |-> Len(vendorMap')]]]
  /\ UNCHANGED << accountMap, statusPending, isConnected, mappingStats, syncResult, pass,
                  inflight, sent, lookup, grouper, ingest, converter >>

\* either query rejects: refreshMappings throws and the handler's catch
\* answers { success: false, error }
QueryFails(i) ==
  /\ refresh[i].pc \in {"accounts", "vendors"}
  /\ refresh' = [refresh EXCEPT ![i] = [IdleRefresh EXCEPT !.pc = "failed"]]
  /\ UNCHANGED << accountMap, vendorMap, statusPending, isConnected, mappingStats, syncResult,
                  pass, inflight, sent, lookup, grouper, ingest, converter >>

\* IIFConverter.refreshMappings after its await
RefreshReturn(i) ==
  /\ refresh[i].pc \in {"done", "failed"}
  /\ refresh' = [refresh EXCEPT ![i] = IdleRefresh]
  /\ mappingStats' = IF refresh[i].pc = "done" THEN refresh[i].counts
                     ELSE mappingStats
  /\ UNCHANGED << accountMap, vendorMap, statusPending, isConnected, syncResult,
                  pass, inflight, sent, lookup, grouper, ingest, converter >>

\* syncJournalEntries / syncBills, lines 158-165 and 206-213: group the rows,
\* zero the results, evaluate Object.entries(groups)
EnterLoop(mode, data) ==
  LET groups == GroupRows(data, IF mode = "GL" THEN "JournalNo" ELSE "BillNo")
  IN  [pc |-> "try", mode |-> mode, data |-> data, groups |-> groups,
       keys |-> ObjectKeys(groups), idx |-> 1, results |-> ZeroResults,
       documents |-> Len(groups)]

\* A sync pass from its call to its first suspension or its end (lines
\* 153-165, 201-213).  Its second statement is this.getBaseUrl(): the call
\* of a method the class does not define throws a TypeError, so the pass
\* ends there with its promise rejected.  documents is the number of
\* document groups the rows passed form.
BeginPass(mode, data) ==
  IF "getBaseUrl" \in QBSyncServiceMethods
  THEN EnterLoop(mode, data)
  ELSE [IdlePass EXCEPT !.pc = "threw", !.mode = mode,
                        !.documents = Len(EnterLoop(mode, data).groups)]

\* The 'qb:sync' handler's answer for a pass that has ended
QbSyncAnswer(p) ==
  IF p.pc = "threw"
  THEN [success |-> FALSE, results |-> ZeroResults,
        error |-> <<"TypeError", "getBaseUrl">>]
  ELSE [success |-> TRUE, results |-> p.results, error |-> <<>>]

\* the passes a push can begin: convertedData is not empty (line 88)
PassesBegun ==
  UNION { { BeginPass(mode, data) : data \in RowLists(mode) } : mode \in Modes }

\* IIFConverter.handlePushToQBO with the 'qb:sync' handler it invokes, for
\* the pass p that the handler's call begins.  The button is rendered when
\* isConnected and disabled while isSyncing; here the pass ends before it
\* suspends, so that the handler's answer is all a push leaves behind.
handlePushToQBO(p) ==
  /\ isConnected
  /\ p.pc = "threw"
  /\ pass' = p
  /\ syncResult' = QbSyncAnswer(p)
  /\ UNCHANGED << accountMap, vendorMap, refresh, statusPending, isConnected,
                  mappingStats, inflight, sent, lookup, grouper, ingest, converter >>

(***************************************************************************)
(* The program: the converter screen, the two handlers and the service.    *)
(***************************************************************************)
NoLookup == [pc |-> "idle", map |-> <<>>, name |-> <<>>, ret |-> Null]

NoGrouper == [pc |-> "idle"]

NoIngest == [pc |-> "idle"]

NoConverter == [pc |-> "idle"]

Init ==
  /\ accountMap = <<>>
  /\ vendorMap = <<>>
  /\ refresh = [i \in 1..MaxRefresh |-> IdleRefresh]
  /\ statusPending = TRUE
  /\ isConnected = FALSE
  /\ mappingStats = NoStats
  /\ syncResult = NoReply
  /\ pass = IdlePass
  /\ inflight = {}
  /\ sent = <<>>
  /\ lookup = NoLookup
  /\ grouper = NoGrouper
  /\ ingest = NoIngest
  /\ converter = NoConverter

Next ==
  \/ \E connected \in BOOLEAN : GetStatusReply(connected)
  \/ handleAuthSuccess
  \/ \E i \in 1..MaxRefresh, resp \in AccountResponses : AccountsReply(i, resp)
  \/ \E i \in 1..MaxRefresh, resp \in VendorResponses : VendorsReply(i, resp)
  \/ \E i \in 1..MaxRefresh : QueryFails(i)
  \/ \E i \in 1..MaxRefresh : RefreshReturn(i)
  \/ \E p \in PassesBegun : handlePushToQBO(p)

Spec == Init /\ [][Next]_vars


(***************************************************************************)
(* The loop of a sync pass (syncJournalEntries lines 158-199, syncBills    *)
(* lines 206-251), as it runs once this.getBaseUrl() has returned: the     *)
(* maps are what earlier refreshes left, the rows are what the push sent.  *)
(***************************************************************************)
LoopAccountMaps == { StoreAccounts(<<>>, resp) : resp \in AccountResponses }

LoopVendorMaps == { StoreVendors(<<>>, resp) : resp \in VendorResponses }

LoopsEntered ==
  UNION { { EnterLoop(mode, data) : data \in RowLists(mode) } : mode \in Modes }

\* results.failed++; results.errors.push(`Journal ${journalNo}: ${err.message}`)
\* (`Bill ${billNo}: ...` in syncBills)
RecordFailure(results, mode, docNo, message) ==
  [results EXCEPT
     !.failed = @ + 1,
     !.errors = Append(@, [kind |-> IF mode = "GL" THEN "Journal" ELSE "Bill",
                           doc |-> docNo, message |-> message])]

\* LoopTry with the request not awaited: the loop goes on at once
LoopTry_NoAwait ==
  /\ pass.pc = "try"
  /\ pass.idx <= Len(pass.keys)
  /\ LET docNo == pass.keys[pass.idx]
         rows == ObjGet(pass.groups, docNo)
         built == IF pass.mode = "GL"
                  THEN JournalPayload(accountMap, pass.data, docNo, rows)
                  ELSE BillPayload(accountMap, vendorMap, pass.data, docNo, rows)
     IN  IF built.ok
         THEN /\ sent' = Append(sent, built.payload)
              /\ inflight' = inflight \cup {docNo}
              /\ pass' = [pass EXCEPT !.idx = @ + 1,
                                      !.results = [@ EXCEPT !.success = @ + 1]]
         ELSE /\ pass' = [pass EXCEPT
                            !.idx = @ + 1,
                            !.results = RecordFailure(@, pass.mode, docNo,
                                                      built.message)]
              /\ UNCHANGED << sent, inflight >>
  /\ UNCHANGED << accountMap, vendorMap, refresh, statusPending, isConnected,
                  mappingStats, syncResult, lookup, grouper, ingest, converter >>

\* One iteration of the for loop up to its await: the payload is built and
\* handed to qbAuth.makeRequest, or building it throws and the catch block
\* records the failure.
LoopTry ==
  /\ pass.pc = "try"
  /\ pass.idx <= Len(pass.keys)
  /\ LET docNo == pass.keys[pass.idx]
         rows == ObjGet(pass.groups, docNo)
         built == IF pass.mode = "GL"
                  THEN JournalPayload(accountMap, pass.data, docNo, rows)
                  ELSE BillPayload(accountMap, vendorMap, pass.data, docNo, rows)
     IN  IF built.ok
         THEN /\ sent' = Append(sent, built.payload)
              /\ inflight' = inflight \cup {docNo}
              /\ pass' = [pass EXCEPT !.pc = "await"]
         ELSE /\ pass' = [pass EXCEPT
                            !.idx = @ + 1,
                            !.results = RecordFailure(@, pass.mode, docNo,
                                                      built.message)]
              /\ UNCHANGED << sent, inflight >>
  /\ UNCHANGED << accountMap, vendorMap, refresh, statusPending, isConnected,
                  mappingStats, syncResult, lookup, grouper, ingest, converter >>

\* The awaited request settles: results.success++, or the catch block
\* records the rejection; the loop goes on with the next group.
LoopSettle(ok) ==
  /\ pass.pc = "await"
  /\ pass.keys[pass.idx] \in inflight
  /\ inflight' = inflight \ {pass.keys[pass.idx]}
  /\ pass' = [pass EXCEPT
                !.pc = "try",
                !.idx = @ + 1,
                !.results = IF ok THEN [@ EXCEPT !.success = @ + 1]
                            ELSE RecordFailure(@, pass.mode, pass.keys[pass.idx],
                                               <<"request failed">>)]
  /\ UNCHANGED << accountMap, vendorMap, refresh, statusPending, isConnected,
                  mappingStats, syncResult, sent, lookup, grouper, ingest, converter >>

\* return results
LoopReturn ==
  /\ pass.pc = "try"
  /\ pass.idx > Len(pass.keys)
  /\ pass' = [pass EXCEPT !.pc = "returned"]
  /\ syncResult' = QbSyncAnswer(pass')
  /\ UNCHANGED << accountMap, vendorMap, refresh, statusPending, isConnected,
                  mappingStats, inflight, sent, lookup, grouper, ingest, converter >>

InitLoop ==
  /\ accountMap \in LoopAccountMaps
  /\ vendorMap \in LoopVendorMaps
  /\ refresh = [i \in 1..MaxRefresh |-> IdleRefresh]
  /\ statusPending = FALSE
  /\ isConnected = TRUE
  /\ mappingStats = [accounts |-> Len(accountMap), vendors |-> Len(vendorMap)]
  /\ syncResult = NoReply
  /\ pass \in LoopsEntered
  /\ inflight = {}
  /\ sent = <<>>
  /\ lookup = NoLookup
  /\ grouper = NoGrouper
  /\ ingest = NoIngest
  /\ converter = NoConverter

NextLoop ==
  \/ LoopTry
  \/ \E ok \in BOOLEAN : LoopSettle(ok)
  \/ LoopReturn

SpecLoop == InitLoop /\ [][NextLoop]_vars


(***************************************************************************)
(* findAccountId on its own: any account map refreshes can leave behind    *)
(* (trimmed names as keys, in any order of creation) and any label.        *)
(***************************************************************************)
LookupKeys == { <<"1">>, <<"1", "2">>, <<"A">>, <<"A", " ", "1">> }

\* the identifier the remote ledger gives the account of that name
LookupId(key) ==
  CASE key = <<"1">> -> 1 [] key = <<"1", "2">> -> 2 [] key = <<"A">> -> 3
    [] key = <<"A", " ", "1">> -> 4

LookupMaps ==
  { [n \in 1..Len(ks) |-> [k |-> ks[n], v |-> LookupId(ks[n])]] :
      ks \in { q \in SeqsUpTo(LookupKeys, MaxKeys) :
                 \A a, b \in 1..Len(q) : q[a] = q[b] => a = b } }

LookupLabels == SeqsUpTo({"1", "2", "A", " "}, MaxLabel)

InitLookup ==
  /\ accountMap \in LookupMaps
  /\ vendorMap = <<>>
  /\ refresh = [i \in 1..MaxRefresh |-> IdleRefresh]
  /\ statusPending = FALSE
  /\ isConnected = TRUE
  /\ mappingStats = [accounts |-> Len(accountMap), vendors |-> 0]
  /\ syncResult = NoReply
  /\ pass = IdlePass
  /\ inflight = {}
  /\ sent = <<>>
  /\ lookup = NoLookup
  /\ grouper = NoGrouper
  /\ ingest = NoIngest
  /\ converter = NoConverter

\* a call this.findAccountId(name)
LookupCall(name) ==
  /\ lookup.pc = "idle"
  /\ lookup' = [pc |-> "returned", map |-> accountMap, name |-> name,
                ret |-> findAccountId(accountMap, name)]
  /\ UNCHANGED << syncVars, grouper, ingest, converter >>

NextLookup == \E name \in LookupLabels : LookupCall(name)

SpecLookup == InitLookup /\ [][NextLookup]_vars

(***************************************************************************)
(* groupTransactionsByDate (src/services/csvProcessor.ts).                 *)
(*                                                                         *)
(* A dateTime is a date-time string without a zone designator, such as     *)
(* "2024-01-05T15:30:00": new Date reads it as local time, so that the     *)
(* Date it makes has the year, month, day, hours, minutes and seconds the  *)
(* string names.                                                           *)
(***************************************************************************)
\* JavaScript numbers that carry money: NaN, or a decimal counted in
\* thousandths (1.044 is Num(1044)), so that rounding to cents is a real step
NaN == [nan |-> TRUE, v |-> 0]

Num(v) == [nan |-> FALSE, v |-> v]

\* a === b, a !== b on numbers
StrictEq(a, b) == ~a.nan /\ ~b.nan /\ a.v = b.v

\* Math.round(x * 100): the nearest count of cents, halves towards +Infinity
MathRoundCents(x) == IF x.nan THEN NaN ELSE Num((x.v + 5) \div 10)

\* cents / 100
CentsToNumber(c) == IF c.nan THEN NaN ELSE Num(c.v * 10)

\* a + b on numbers
NumAdd(a, b) == IF a.nan \/ b.nan THEN NaN ELSE Num(a.v + b.v)

\* the subtotal update without the rounding to cents: a + b
CentAdd_Plain(a, b) == NumAdd(a, b)

\* (Math.round(a * 100) + Math.round(b * 100)) / 100
CentAdd(a, b) == CentsToNumber(NumAdd(MathRoundCents(a), MathRoundCents(b)))

TxDates ==
  { [y |-> 2024, m |-> 1, d |-> 5], [y |-> 2024, m |-> 1, d |-> 6],
    [y |-> 2024, m |-> 12, d |-> 31] }

TxTimes ==
  { [h |-> 15, mi |-> 59, s |-> 0], [h |-> 15, mi |-> 59, s |-> 59],
    [h |-> 16, mi |-> 0, s |-> 0], [h |-> 16, mi |-> 1, s |-> 0] }

DateTimes == { [date |-> dt, time |-> tm] : dt \in TxDates, tm \in TxTimes }

IsLeapYear(y) == (y % 4 = 0 /\ y % 100 # 0) \/ y % 400 = 0

DaysInMonth(y, m) ==
  IF m = 2 THEN (IF IsLeapYear(y) THEN 29 ELSE 28)
  ELSE IF m \in {4, 6, 9, 11} THEN 30 ELSE 31

\* date.setDate(date.getDate() + 1)
SetDateNextDay(date) ==
  IF date.d < DaysInMonth(date.y, date.m) THEN [date EXCEPT !.d = @ + 1]
  ELSE IF date.m < 12 THEN [date EXCEPT !.m = @ + 1, !.d = 1]
  ELSE [y |-> date.y + 1, m |-> 1, d |-> 1]

\* Date.prototype.toLocaleDateString: "1/5/2024"
toLocaleDateString(date) == << date.m, date.d, date.y >>

\* Date.prototype.getTime, up to the epoch and the unit
getTime(dateTime) ==
  (((dateTime.date.y - 2024) * 12 + dateTime.date.m) * 31 + dateTime.date.d)
      * 86400
    + dateTime.time.h * 3600 + dateTime.time.mi * 60 + dateTime.time.s

\* a dateTime text that new Date cannot read: new Date(text) is an Invalid
\* Date, whose getTime() and getHours() are NaN
UnparsableDate == [text |-> "n/a"]

\* new Date(dateTime) is a date
IsValidDate(dateTime) == "date" \in DOMAIN dateTime

\* toLocaleDateString() of an Invalid Date, "Invalid Date", written as a
\* month / day / year no date has
InvalidDateLabel == << 0, 0, 0 >>

\* getReportingDateString with the cutover after the sixteenth hour
getReportingDateString_After16(dateTime) ==
  IF ~IsValidDate(dateTime) THEN InvalidDateLabel
  ELSE IF dateTime.time.h > 16
  THEN toLocaleDateString(SetDateNextDay(dateTime.date))
  ELSE toLocaleDateString(dateTime.date)

getReportingDateString(dateTime) ==
  IF ~IsValidDate(dateTime) THEN InvalidDateLabel
  ELSE IF dateTime.time.h >= 16
  THEN toLocaleDateString(SetDateNextDay(dateTime.date))
  ELSE toLocaleDateString(dateTime.date)

\* amount, fee and net of a transaction as ingestion can leave them: with
\* parts of a cent, and with a fee and a net that are NaN
TxMoney ==
  { [amount |-> Num(1044), fee |-> Num(0 - 266), net |-> Num(780)],
    [amount |-> Num(104), fee |-> Num(0), net |-> Num(104)],
    [amount |-> Num(2000), fee |-> NaN, net |-> NaN] }

\* the lists parseShopifyCSV and parsePaypalCSV hand over: sorted newest
\* first; a transaction is named by its place in the list
TransactionLists ==
  { [n \in 1..Len(q) |->
       [id |-> n, dateTime |-> q[n].dateTime, amount |-> q[n].money.amount,
        fee |-> q[n].money.fee, net |-> q[n].money.net]] :
      q \in { r \in SeqsUpTo([dateTime : DateTimes, money : TxMoney], MaxTx) :
                \A a, b \in 1..Len(r) :
                   a < b => getTime(r[a].dateTime) >= getTime(r[b].dateTime) } }

\* let currentGroup: DailyGroup | null = null
NullGroup ==
  [isNull |-> TRUE, date |-> <<>>, transactions |-> <<>>, subtotal |-> Num(0),
   subtotalFees |-> Num(0), subtotalNet |-> Num(0), count |-> 0]

\* the body of the forEach callback (lines 251-272) on the locals
\* g = [currentGroup, dailyGroups]
GroupAppend(g, t) ==
  LET tDate == getReportingDateString(t.dateTime)
      cur == g.currentGroup
      opens == cur.isNull \/ cur.date # tDate
      group == IF opens
               THEN [isNull |-> FALSE, date |-> tDate, transactions |-> <<>>,
                     subtotal |-> Num(0), subtotalFees |-> Num(0),
                     subtotalNet |-> Num(0), count |-> 0]
               ELSE cur
  IN  [dailyGroups |-> IF opens /\ ~cur.isNull THEN Append(g.dailyGroups, cur)
                       ELSE g.dailyGroups,
       currentGroup |->
         [group EXCEPT !.transactions = Append(@, t),
                       !.subtotal = CentAdd(@, t.amount),
                       !.subtotalFees = CentAdd(@, t.fee),
                       !.subtotalNet = CentAdd(@, t.net),
                       !.count = @ + 1]]

\* the return without the push of the group still open
GroupClose_DropOpen(g) == g.dailyGroups

\* lines 275-279 on the same locals: the dailyGroups returned
GroupClose(g) ==
  IF g.currentGroup.isNull THEN g.dailyGroups
  ELSE Append(g.dailyGroups, g.currentGroup)

GroupCalls ==
  { [pc |-> "forEach", transactions |-> txs, i |-> 1,
     currentGroup |-> NullGroup, dailyGroups |-> <<>>] :
      txs \in TransactionLists }

\* one call of the forEach callback (lines 250-273)
GroupStep ==
  /\ grouper.pc = "forEach"
  /\ grouper.i <= Len(grouper.transactions)
  /\ LET g == GroupAppend([currentGroup |-> grouper.currentGroup,
                           dailyGroups |-> grouper.dailyGroups],
                          grouper.transactions[grouper.i])
     IN  grouper' = [grouper EXCEPT !.i = @ + 1,
                                    !.dailyGroups = g.dailyGroups,
                                    !.currentGroup = g.currentGroup]
  /\ UNCHANGED << syncVars, lookup, ingest, converter >>

\* lines 275-279: the last group is pushed and dailyGroups returned
GroupReturn ==
  /\ grouper.pc = "forEach"
  /\ grouper.i > Len(grouper.transactions)
  /\ grouper' =
       [grouper EXCEPT
          !.pc = "returned",
          !.dailyGroups = GroupClose([currentGroup |-> grouper.currentGroup,
                                      dailyGroups |-> grouper.dailyGroups])]
  /\ UNCHANGED << syncVars, lookup, ingest, converter >>

InitGroup ==
  /\ accountMap = <<>>
  /\ vendorMap = <<>>
  /\ refresh = [i \in 1..MaxRefresh |-> IdleRefresh]
  /\ statusPending = TRUE
  /\ isConnected = FALSE
  /\ mappingStats = NoStats
  /\ syncResult = NoReply
  /\ pass = IdlePass
  /\ inflight = {}
  /\ sent = <<>>
  /\ lookup = NoLookup
  /\ grouper \in GroupCalls
  /\ ingest = NoIngest
  /\ converter = NoConverter

NextGroup == GroupStep \/ GroupReturn

SpecGroup == InitGroup /\ [][NextGroup]_vars


(***************************************************************************)
(* parseShopifyCSV and parsePaypalCSV: a batch of files, one Papa.parse    *)
(* task per file whose complete or error callback runs in any order, and   *)
(* the continuation of  await Promise.all(...)  that sorts, groups, totals *)
(* and resolves, or rejects.                                               *)
(***************************************************************************)
\* val.toString().replace(/[^0-9.-]+/g, "")
StripNonNumeric(s) == SelectSeq(s, LAMBDA c : c \in Digits \cup {".", "-"})

RECURSIVE DigitsPrefix(_)
DigitsPrefix(s) ==
  IF s # <<>> /\ Head(s) \in Digits
  THEN <<Head(s)>> \o DigitsPrefix(Tail(s))
  ELSE <<>>

\* the thousandths that the digits after the point stand for ("04" is 40)
FractionThousandths(f) == NumVal(SubSeq(f \o <<"0", "0", "0">>, 1, 3))

\* parseFloat of a text of digits, points and minus signs: the longest
\* prefix that is a decimal literal, NaN when there is none
parseFloat(s) ==
  LET neg == s # <<>> /\ Head(s) = "-"
      body == IF neg THEN Tail(s) ELSE s
      int == DigitsPrefix(body)
      rest == SubSeq(body, Len(int) + 1, Len(body))
      frac == IF rest # <<>> /\ Head(rest) = "." THEN DigitsPrefix(Tail(rest))
              ELSE <<>>
      mag == NumVal(int) * 1000 + FractionThousandths(frac)
  IN  IF int = <<>> /\ frac = <<>> THEN NaN
      ELSE Num(IF neg THEN 0 - mag ELSE mag)

\* String(n) of a counter
RECURSIVE NumberToString(_)
NumberToString(n) ==
  IF n < 10 THEN << CHOOSE c \in Digits : DigitVal(c) = n >>
  ELSE NumberToString(n \div 10) \o NumberToString(n % 10)

\* `${orderId}-${globalEntryCounter}`
TemplateId(orderId, counter) == orderId \o <<"-">> \o NumberToString(counter)

\* the texts of a monetary cell: empty, "0", "1.04", "$2", "a", "-0.26"
MoneyCells ==
  { <<>>, <<"0">>, <<"1", ".", "0", "4">>, <<"$", "2">>, <<"a">>,
    <<"-", "0", ".", "2", "6">> }

\* the texts of an order or transaction reference cell
ReferenceCells == { <<>>, <<"A">> }

EmptyCell == [empty |-> TRUE]

\* a cell is falsy (empty or absent)
IsEmptyCell(c) == "empty" \in DOMAIN c

DateA == [y |-> 2024, m |-> 1, d |-> 5]

TimeEarly == [h |-> 15, mi |-> 59, s |-> 59]

TimeLate == [h |-> 16, mi |-> 0, s |-> 0]

\* the 'Created at' cell of a Shopify row
CreatedAtCells ==
  { EmptyCell, UnparsableDate } \cup { [date |-> DateA, time |-> tm] : tm \in {TimeEarly, TimeLate} }

\* the 'Date' and 'Time' cells of a PayPal row
DateCells == { EmptyCell, UnparsableDate, DateA }

TimeCells == { EmptyCell, TimeEarly, TimeLate }

TypeCells == { "", "Payment", "General Withdrawal", "User Initiated Withdrawal" }

\* `${dateStr} ${timeStr}`
TemplateDateTime(dateStr, timeStr) ==
  IF "y" \in DOMAIN dateStr THEN [date |-> dateStr, time |-> timeStr]
  ELSE UnparsableDate

\* parseFloat(raw.toString().replace(/[^0-9.-]+/g, "")) of  cell || '0'
ShopifyFloat(cell) ==
  parseFloat(StripNonNumeric(IF cell = <<>> THEN <<"0">> ELSE cell))

\* the callback of rawData.forEach in parseShopifyCSV (lines 27-79) for one
\* row, at the counter value given and with new Date() being now: whether
\* the row is pushed, and the transaction
ShopifyRow(row, counter, now, file, n) ==
  LET dateTime == IF IsEmptyCell(row.CreatedAt) THEN now ELSE row.CreatedAt
      orderId == IF row.Name = <<>>
                 THEN <<"L", "i", "n", "e", "-">> \o NumberToString(counter)
                 ELSE row.Name
      amount == ShopifyFloat(row.Amount)
      fee == ShopifyFloat(row.Fee)
      net0 == ShopifyFloat(row.Net)
      net == IF StrictEq(net0, Num(0))
                /\ (~StrictEq(amount, Num(0)) \/ ~StrictEq(fee, Num(0)))
             THEN CentAdd(amount, fee)
             ELSE net0
  IN  [pushed |-> ~amount.nan,
       t |-> [id |-> TemplateId(orderId, counter), orderNumber |-> orderId,
              dateTime |-> dateTime, amount |-> amount, fee |-> fee,
              net |-> net, type |-> "Unknown", sourceFile |-> file,
              sourceRow |-> n]]

\* cleanFloat (lines 160-163)
cleanFloat(val) == IF val = <<>> THEN Num(0) ELSE parseFloat(StripNonNumeric(val))

\* the PayPal row callback without the exclusion of withdrawals
PaypalRow_KeepWithdrawals(row, counter, now, file, n) ==
  LET type == IF row.Type = "" THEN "Unknown" ELSE row.Type
      orderId == IF row.TransactionID = <<>>
                 THEN <<"P", "P", "-">> \o NumberToString(counter)
                 ELSE row.TransactionID
      amount == cleanFloat(row.Gross)
      fee == cleanFloat(row.Fee)
      net == cleanFloat(row.Net)
  IN  [pushed |->
         /\ ~IsEmptyCell(row.Date) /\ ~IsEmptyCell(row.Time)
         /\ ~(StrictEq(amount, Num(0)) /\ StrictEq(fee, Num(0))
                /\ StrictEq(net, Num(0))),
       t |-> [id |-> TemplateId(orderId, counter), orderNumber |-> orderId,
              dateTime |-> TemplateDateTime(row.Date, row.Time),
              amount |-> amount, fee |-> fee, net |-> net, type |-> type,
              sourceFile |-> file, sourceRow |-> n]]

\* the callback of rawData.forEach in parsePaypalCSV (lines 143-189)
PaypalRow(row, counter, now, file, n) ==
  LET type == IF row.Type = "" THEN "Unknown" ELSE row.Type
      orderId == IF row.TransactionID = <<>>
                 THEN <<"P", "P", "-">> \o NumberToString(counter)
                 ELSE row.TransactionID
      amount == cleanFloat(row.Gross)
      fee == cleanFloat(row.Fee)
      net == cleanFloat(row.Net)
  IN  [pushed |->
         /\ ~IsEmptyCell(row.Date) /\ ~IsEmptyCell(row.Time)
         /\ type \notin {"General Withdrawal", "User Initiated Withdrawal"}
         /\ ~(StrictEq(amount, Num(0)) /\ StrictEq(fee, Num(0))
                /\ StrictEq(net, Num(0))),
       t |-> [id |-> TemplateId(orderId, counter), orderNumber |-> orderId,
              dateTime |-> TemplateDateTime(row.Date, row.Time),
              amount |-> amount, fee |-> fee, net |-> net, type |-> type,
              sourceFile |-> file, sourceRow |-> n]]

ParseRow(kind, row, counter, now, file, n) ==
  IF kind = "shopify" THEN ShopifyRow(row, counter, now, file, n)
  ELSE PaypalRow(row, counter, now, file, n)

\* rawData.forEach(...) with a counter that numbers the rows of each file
RECURSIVE ForEachRow_PerFileCounter(_, _, _, _, _, _)
ForEachRow_PerFileCounter(kind, rows, n, now, file, c) ==
  IF n > Len(rows) THEN c
  ELSE LET r == ParseRow(kind, rows[n], n - 1, now, file, n)
       IN  ForEachRow_PerFileCounter(kind, rows, n + 1, now, file,
             IF r.pushed
             THEN [allTransactions |-> Append(c.allTransactions, r.t),
                   globalEntryCounter |-> c.globalEntryCounter + 1]
             ELSE c)

\* rawData.forEach(...) that takes the rows of the file last row first
RECURSIVE ForEachRow_LastRowFirst(_, _, _, _, _, _)
ForEachRow_LastRowFirst(kind, rows, n, now, file, c) ==
  IF n > Len(rows) THEN c
  ELSE LET m == Len(rows) + 1 - n
           r == ParseRow(kind, rows[m], c.globalEntryCounter, now, file, m)
       IN  ForEachRow_LastRowFirst(kind, rows, n + 1, now, file,
             IF r.pushed
             THEN [allTransactions |-> Append(c.allTransactions, r.t),
                   globalEntryCounter |-> c.globalEntryCounter + 1]
             ELSE c)

\* rawData.forEach(...) of one file on the locals of the call
\* c = [allTransactions, globalEntryCounter], from row n on
RECURSIVE ForEachRow(_, _, _, _, _, _)
ForEachRow(kind, rows, n, now, file, c) ==
  IF n > Len(rows) THEN c
  ELSE LET r == ParseRow(kind, rows[n], c.globalEntryCounter, now, file, n)
       IN  ForEachRow(kind, rows, n + 1, now, file,
             IF r.pushed
             THEN [allTransactions |-> Append(c.allTransactions, r.t),
                   globalEntryCounter |-> c.globalEntryCounter + 1]
             ELSE c)

\* new Date(t.dateTime).getTime()
TimeOf(t) == IF IsValidDate(t.dateTime) THEN Num(getTime(t.dateTime)) ELSE NaN

\* the comparator of allTransactions.sort (lines 94, 202) as sort reads it:
\* new Date(b.dateTime).getTime() - new Date(a.dateTime).getTime(), a NaN
\* result counting as +0
SortOrder(a, b) ==
  IF TimeOf(a).nan \/ TimeOf(b).nan THEN 0 ELSE TimeOf(b).v - TimeOf(a).v

\* the comparator is a consistent comparator for the elements of the list
IsConsistentComparator(txs) ==
  \A i, j, k \in 1..Len(txs) :
    SortOrder(txs[i], txs[j]) = 0 /\ SortOrder(txs[j], txs[k]) = 0
      => SortOrder(txs[i], txs[k]) = 0

\* t goes before the first element that sorts after it
SortInsert(sorted, t) ==
  LET after == { k \in 1..Len(sorted) : SortOrder(sorted[k], t) > 0 }
      at == IF after = {} THEN Len(sorted) + 1
            ELSE CHOOSE k \in after : \A m \in after : k <= m
  IN  SubSeq(sorted, 1, at - 1) \o <<t>> \o SubSeq(sorted, at, Len(sorted))

RECURSIVE SortStable(_)
SortStable(txs) ==
  IF txs = <<>> THEN <<>>
  ELSE SortInsert(SortStable(SubSeq(txs, 1, Len(txs) - 1)), txs[Len(txs)])

\* Array.prototype.sort: stable under a consistent comparator, and some
\* implementation-defined order of the same elements otherwise
SortOutcomes(txs) ==
  IF IsConsistentComparator(txs) THEN { SortStable(txs) }
  ELSE { [i \in 1..Len(txs) |-> txs[p[i]]] : p \in Permutations(1..Len(txs)) }

RECURSIVE GroupFold(_, _)
GroupFold(g, txs) ==
  IF txs = <<>> THEN g ELSE GroupFold(GroupAppend(g, Head(txs)), Tail(txs))

\* groupTransactionsByDate as a function of its argument
groupTransactionsByDate(txs) ==
  IF Len(txs) > 0
  THEN GroupClose(GroupFold([currentGroup |-> NullGroup, dailyGroups |-> <<>>],
                            txs))
  ELSE <<>>

\* allTransactions.reduce((sum, t) => sum + Math.round(t.field * 100), 0) / 100
RECURSIVE ReduceCents(_, _)
ReduceCents(txs, field) ==
  IF txs = <<>> THEN Num(0)
  ELSE NumAdd(ReduceCents(SubSeq(txs, 1, Len(txs) - 1), field),
              MathRoundCents(txs[Len(txs)][field]))

\* lines 97-120 (205-227): the ReportSummary of the sorted list
ReportSummary(sorted, now) ==
  LET dailyGroups == groupTransactionsByDate(sorted)
      newest == dailyGroups[1].date
      oldest == dailyGroups[Len(dailyGroups)].date
  IN  [dateRange |-> IF Len(dailyGroups) > 0
                     THEN (IF oldest = newest THEN <<oldest>>
                           ELSE <<oldest, newest>>)
                     ELSE << toLocaleDateString(now.date) >>,
       totalAmount |-> CentsToNumber(ReduceCents(sorted, "amount")),
       totalFees |-> CentsToNumber(ReduceCents(sorted, "fee")),
       totalNet |-> CentsToNumber(ReduceCents(sorted, "net")),
       transactionCount |-> Len(sorted),
       dailyGroups |-> dailyGroups,
       allTransactions |-> sorted]

NoSummary == [transactionCount |-> 0 - 1]

SourceKinds == {"shopify", "paypal"}

\* what new Date() can be when a callback runs
Nows ==
  { [date |-> DateA, time |-> TimeEarly],
    [date |-> [y |-> 2024, m |-> 12, d |-> 31], time |-> TimeLate] }

\* the rows of a Shopify export and of a PayPal export
ShopifyRows ==
  [CreatedAt : CreatedAtCells, Name : ReferenceCells, Amount : MoneyCells,
   Fee : MoneyCells, Net : MoneyCells]

PaypalRows ==
  [Date : DateCells, Time : TimeCells, TransactionID : ReferenceCells,
   Gross : MoneyCells, Fee : MoneyCells, Net : MoneyCells, Type : TypeCells]

\* the rows the files of a batch are made of: a sale before and one after
\* the cutover with the same reference, a row whose date is no date and
\* that has no reference, and a row that is not accepted
ShopifyBatchRows ==
  { r \in ShopifyRows :
      /\ r.Fee = <<"-", "0", ".", "2", "6">> /\ r.Net = <<>>
      /\ \/ r.Name = <<"A">> /\ r.Amount = <<"1", ".", "0", "4">>
              /\ IsValidDate(r.CreatedAt)
         \/ r.Name = <<>> /\ r.Amount = <<"1", ".", "0", "4">>
              /\ r.CreatedAt = UnparsableDate
         \/ r.Name = <<"A">> /\ r.Amount = <<"a">>
              /\ r.CreatedAt = [date |-> DateA, time |-> TimeEarly] }

PaypalBatchRows ==
  { r \in PaypalRows :
      /\ r.Gross = <<"1", ".", "0", "4">> /\ r.Fee = <<"-", "0", ".", "2", "6">>
      /\ r.Net = <<>>
      /\ \/ r.TransactionID = <<"A">> /\ r.Type = "Payment" /\ r.Date = DateA
              /\ ~IsEmptyCell(r.Time)
         \/ r.TransactionID = <<>> /\ r.Type = "Payment"
              /\ r.Date = UnparsableDate /\ r.Time = TimeEarly
         \/ r.TransactionID = <<"A">> /\ r.Type = "General Withdrawal"
              /\ r.Date = DateA /\ r.Time = TimeEarly }

\* the rows q dealt to files: a new file starts after each place in cuts
RECURSIVE SplitRows(_, _, _)
SplitRows(q, cuts, n) ==
  IF n > Len(q) THEN <<>>
  ELSE LET rest == SplitRows(q, cuts, n + 1)
       IN  IF n \in cuts \/ n = Len(q) THEN << <<q[n]>> >> \o rest
           ELSE << <<q[n]>> \o Head(rest) >> \o Tail(rest)

\* the batches of files, none of them empty, made of the rows given
BatchesOf(rows) ==
  UNION { { SplitRows(q, cuts, 1) : cuts \in SUBSET (1..(Len(q) - 1)) } :
            q \in SeqsUpTo(rows, MaxBatchRows) \ { <<>> } }

\* the state of a call once Papa.parse has been started on every file
IngestCall(kind, files) ==
  [pc |-> "parsing", kind |-> kind, files |-> files,
   tasks |-> [f \in 1..Len(files) |-> "pending"],
   allTransactions |-> <<>>, globalEntryCounter |-> 0,
   summary |-> NoSummary, error |-> ""]

\* calls on a batch of files
IngestCalls ==
  { IngestCall("shopify", files) : files \in BatchesOf(ShopifyBatchRows) }
  \cup { IngestCall("paypal", files) : files \in BatchesOf(PaypalBatchRows) }

\* calls on one file of one row, for every row
RowCalls ==
  { IngestCall("shopify", << <<r>> >>) : r \in ShopifyRows }
  \cup { IngestCall("paypal", << <<r>> >>) : r \in PaypalRows }

\* the values new Date() can have where the code reads the clock; where it
\* does not read it (or drops what it read) one value stands for all
ClockValues(reads) == IF reads THEN Nows ELSE { CHOOSE now \in Nows : TRUE }

\* line 39: new Date() is read for a Shopify row without a date
RowsReadClock(kind, rows) ==
  kind = "shopify" /\ \E n \in 1..Len(rows) : IsEmptyCell(rows[n].CreatedAt)

\* the complete callback of Papa.parse for file f (lines 23-85, 139-194),
\* and, when it settles the last task of a call that has not rejected, the
\* continuation of the await: sort, group, totals, resolve (the date range
\* is that of new Date() when there is no group)
FileComplete(f) ==
  /\ ingest.pc \in {"parsing", "rejected"}
  /\ f \in 1..Len(ingest.files)
  /\ ingest.tasks[f] = "pending"
  /\ \E now \in ClockValues(RowsReadClock(ingest.kind, ingest.files[f])) :
       LET c == ForEachRow(ingest.kind, ingest.files[f], 1, now, f,
                           [allTransactions |-> ingest.allTransactions,
                            globalEntryCounter |-> ingest.globalEntryCounter])
           tasks == [ingest.tasks EXCEPT ![f] = "done"]
           parsed == [ingest EXCEPT !.tasks = tasks,
                                    !.allTransactions = c.allTransactions,
                                    !.globalEntryCounter = c.globalEntryCounter]
       IN  IF ingest.pc = "parsing" /\ \A g \in 1..Len(tasks) : tasks[g] = "done"
           THEN \E sorted \in SortOutcomes(c.allTransactions),
                   today \in ClockValues(c.allTransactions = <<>>) :
                  ingest' = [parsed EXCEPT !.pc = "resolved",
                                           !.allTransactions = sorted,
                                           !.summary = ReportSummary(sorted, today)]
           ELSE ingest' = parsed
  /\ UNCHANGED << syncVars, lookup, grouper, converter >>

\* the error callback of Papa.parse for file f (lines 86, 195): the file's
\* promise rejects, Promise.all rejects with it, the await throws and the
\* catch rejects the call (lines 122-124, 229-231)
FileError(f) ==
  /\ ingest.pc \in {"parsing", "rejected"}
  /\ f \in 1..Len(ingest.files)
  /\ ingest.tasks[f] = "pending"
  /\ ingest' = [ingest EXCEPT
                  !.tasks[f] = "failed",
                  !.pc = "rejected",
                  !.error = IF ingest.pc = "parsing" THEN "read error" ELSE @]
  /\ UNCHANGED << syncVars, lookup, grouper, converter >>

InitIngest ==
  /\ accountMap = <<>>
  /\ vendorMap = <<>>
  /\ refresh = [i \in 1..MaxRefresh |-> IdleRefresh]
  /\ statusPending = TRUE
  /\ isConnected = FALSE
  /\ mappingStats = NoStats
  /\ syncResult = NoReply
  /\ pass = IdlePass
  /\ inflight = {}
  /\ sent = <<>>
  /\ lookup = NoLookup
  /\ grouper = NoGrouper
  /\ ingest \in IngestCalls
  /\ converter = NoConverter

InitRow ==
  /\ accountMap = <<>>
  /\ vendorMap = <<>>
  /\ refresh = [i \in 1..MaxRefresh |-> IdleRefresh]
  /\ statusPending = TRUE
  /\ isConnected = FALSE
  /\ mappingStats = NoStats
  /\ syncResult = NoReply
  /\ pass = IdlePass
  /\ inflight = {}
  /\ sent = <<>>
  /\ lookup = NoLookup
  /\ grouper = NoGrouper
  /\ ingest \in RowCalls
  /\ converter = NoConverter

NextIngest ==
  \/ \E f \in 1..MaxBatchRows : FileComplete(f)
  \/ \E f \in 1..MaxBatchRows : FileError(f)

SpecIngest == InitIngest /\ [][NextIngest]_vars

SpecRow == InitRow /\ [][NextIngest]_vars

(***************************************************************************)
(* ConverterService (src/unnamed/part_001): convert, convertGL,            *)
(* convertBills, getVal, parseAmount.                                      *)
(*                                                                         *)
(* The document is the list of lines iifString.split(/\r?\n/) gives.  A    *)
(* line is a string with "\t" between its cells.  The characters of a      *)
(* record marker, a date, a number or an amount are separate; a column     *)
(* name or an account label, which the code only compares whole or joins,  *)
(* is written as one symbol.                                               *)
(***************************************************************************)

\* String.prototype.split(sep) for a separator of one character
RECURSIVE Split(_, _)
Split(s, sep) ==
  IF \A i \in 1..Len(s) : s[i] # sep THEN << s >>
  ELSE LET i == CHOOSE j \in 1..Len(s) :
                  s[j] = sep /\ \A k \in 1..(j - 1) : s[k] # sep
       IN  << SubSeq(s, 1, i - 1) >> \o Split(SubSeq(s, i + 1, Len(s)), sep)

\* Array.prototype.join
RECURSIVE Join(_, _)
Join(cells, sep) ==
  IF cells = <<>> THEN <<>>
  ELSE IF Len(cells) = 1 THEN cells[1]
  ELSE cells[1] \o << sep >> \o Join(Tail(cells), sep)

\* the UTF-16 code unit of the characters strings are ordered by
CharCode(c) ==
  CASE c \in Digits -> 48 + DigitVal(c)
    [] c = "\t" -> 9  [] c = " " -> 32  [] c = "-" -> 45  [] c = "." -> 46
    [] c = "/" -> 47  [] c = "A" -> 65  [] c = "B" -> 66  [] c = "C" -> 67
    [] c = "F" -> 70  [] c = "I" -> 73  [] c = "P" -> 80

\* a < b on two strings
RECURSIVE StringLess(_, _)
StringLess(a, b) ==
  IF b = <<>> THEN FALSE
  ELSE IF a = <<>> THEN TRUE
  ELSE IF Head(a) = Head(b) THEN StringLess(Tail(a), Tail(b))
  ELSE CharCode(Head(a)) < CharCode(Head(b))

\* Number.prototype.toFixed(2)
toFixed2(x) ==
  IF x.nan THEN << "NaN" >>
  ELSE LET mag == IF x.v < 0 THEN 0 - x.v ELSE x.v
           cents == (mag + 5) \div 10
           frac == cents % 100
       IN  (IF x.v < 0 THEN << "-" >> ELSE <<>>)
             \o NumberToString(cents \div 100) \o << "." >>
             \o NumberToString(frac \div 10) \o NumberToString(frac % 10)

\* Math.abs
MathAbs(x) == IF x.nan THEN x ELSE Num(IF x.v < 0 THEN 0 - x.v ELSE x.v)

glAccountOverrides ==
  << [k |-> << "0-115-0" >>,
      v |-> << "0-115-0", " INVENTORY - PARTS" >>],
     [k |-> << "0-119-0" >>,
      v |-> << "0-119-0", " OTHER CC CLEARING" >>],
     [k |-> << "0-121-0" >>,
      v |-> << "0-121-0", " UNDEPOSITED FUNDS" >>],
     [k |-> << "WEB CC" >>, v |-> << "0-122-0", " WEB CC" >>],
     [k |-> << "0-131-0" >>,
      v |-> << "0-131-0", " TRANSFER CLEARING" >>],
     [k |-> << "0-202-0" >>,
      v |-> << "0-202-0", " ACCOUNTS PAYABLE CLEARING" >>],
     [k |-> << "0-203-0" >>,
      v |-> << "0-203-0", " SALES TAX PAYABLE" >>],
     [k |-> << "0-251-0" >>,
      v |-> << "0-251-0", " CUSTOMER DEPOSITS" >>],
     [k |-> << "0-310-0" >>,
      v |-> << "0-310-0", " INTERFACE CORRECTION ACCT" >>],
     [k |-> << "0-401-0" >>,
      v |-> << "0-401-0", " SALES" >>],
     [k |-> << "0-405-0" >>,
      v |-> << "0-405-0", " SHIPPING & HANDLING FEES" >>],
     [k |-> << "0-490-0" >>,
      v |-> << "0-490-0", " SALES RETURNS AND ALLOWANCES" >>],
     [k |-> << "0-501-0" >>,
      v |-> << "0-501-0", " COST OF GOODS SOLD" >>] >>

apAccountOverrides ==
  << [k |-> << "0-201-0" >>, v |-> << "0-201-0", " ACCOUNTS PAYABLE" >>],
     [k |-> << "0-202-0" >>,
      v |-> << "0-202-0", " ACCOUNTS PAYABLE CLEARING" >>],
     [k |-> << "0-682-0" >>, v |-> << "0-682-0", " SHIPPING EXPENSE" >>] >>

\* overrides[rawAccnt] ?? rawAccnt
AccountOverride(overrides, rawAccnt) ==
  IF ObjHas(overrides, rawAccnt) THEN ObjGet(overrides, rawAccnt)
  ELSE rawAccnt

\* headers.forEach((h, i) => headerMap[h] = i)
RECURSIVE ForEachHeader(_, _, _)
ForEachHeader(map, headers, i) ==
  IF i >= Len(headers) THEN map
  ELSE ForEachHeader(ObjSet(map, headers[i + 1], i), headers, i + 1)

\* the map a header line gives:  line.trim().split('\t')  and the forEach
HeaderMapOf(line) == ForEachHeader(<<>>, Split(Trim(line), "\t"), 0)

getVal(parts, map, colName) ==
  IF ObjHas(map, colName) /\ ObjGet(map, colName) < Len(parts)
  THEN parts[ObjGet(map, colName) + 1]
  ELSE <<>>

\* parseAmount that writes the amount on both sides
parseAmount_BothSides(amountStr) ==
  LET parsed == parseFloat(amountStr)
      amountFloat == IF parsed.nan THEN Num(0) ELSE parsed
  IN  [debitStr |-> IF amountFloat.v # 0 THEN toFixed2(MathAbs(amountFloat))
                    ELSE <<>>,
       creditStr |-> IF amountFloat.v < 0 THEN toFixed2(MathAbs(amountFloat))
                     ELSE <<>>]

parseAmount(amountStr) ==
  LET parsed == parseFloat(amountStr)
      amountFloat == IF parsed.nan THEN Num(0) ELSE parsed
  IN  [debitStr |-> IF amountFloat.v > 0 THEN toFixed2(amountFloat) ELSE <<>>,
       creditStr |-> IF amountFloat.v < 0 THEN toFixed2(MathAbs(amountFloat))
                     ELSE <<>>]

BangSPL == << "!", "S", "P", "L" >>
BangTRNS == << "!", "T", "R", "N", "S" >>
MarkSPL == << "S", "P", "L" >>
MarkTRNS == << "T", "R", "N", "S" >>

\* yyyy.slice(-2)
SliceLast2(s) == IF Len(s) <= 2 THEN s ELSE SubSeq(s, Len(s) - 1, Len(s))

\* LOGIC 1 of convertGL: the journal number of a date
JournalNoOf(rawDate) ==
  LET dateParts == Split(rawDate, "/")
  IN  IF Len(dateParts) = 3
      THEN << "C", "P", "I", "I", "F", "-" >> \o dateParts[1] \o dateParts[2]
             \o SliceLast2(dateParts[3])
      ELSE << "C", "P", "I", "I", "F", "-" >>
             \o SelectSeq(rawDate, LAMBDA c : c # "/")

\* the row convertGL pushes for a data line
GLRow(line, headerMap) ==
  LET parts == Split(Trim(line), "\t")
      rawDocNum == getVal(parts, headerMap, << "DOCNUM" >>)
      rawDate == getVal(parts, headerMap, << "DATE" >>)
      rawMemo == getVal(parts, headerMap, << "MEMO" >>)
      rawAccnt == getVal(parts, headerMap, << "ACCNT" >>)
      rawAmount == getVal(parts, headerMap, << "AMOUNT" >>)
      amount == parseAmount(rawAmount)
  IN  [JournalNo |-> JournalNoOf(rawDate),
       JournalDate |-> rawDate,
       Description |->
         IF rawMemo # <<>>
         THEN rawMemo \o << " (Ref: " >> \o rawDocNum \o << ")" >>
         ELSE << "(Ref: " >> \o rawDocNum \o << ")" >>,
       Account |-> AccountOverride(glAccountOverrides, rawAccnt),
       Debit |-> amount.debitStr,
       Credit |-> amount.creditStr,
       Name |-> getVal(parts, headerMap, << "NAME" >>)]

\* the comparator of the final sort of each mode
RowBefore(mode, a, b) ==
  IF mode = "GL" THEN StringLess(a.JournalNo, b.JournalNo)
  ELSE \/ StringLess(a.JournalDate, b.JournalDate)
       \/ /\ ~StringLess(b.JournalDate, a.JournalDate)
          /\ StringLess(a.JournalNo, b.JournalNo)

\* Array.prototype.sort under a consistent comparator: stable
RowInsert(mode, sorted, row) ==
  LET after == { i \in 1..Len(sorted) : RowBefore(mode, row, sorted[i]) }
      at == IF after = {} THEN Len(sorted) + 1
            ELSE CHOOSE i \in after : \A j \in after : i <= j
  IN  SubSeq(sorted, 1, at - 1) \o << row >> \o SubSeq(sorted, at, Len(sorted))

RECURSIVE SortRows(_, _)
SortRows(mode, rows) ==
  IF rows = <<>> THEN <<>>
  ELSE RowInsert(mode, SortRows(mode, SubSeq(rows, 1, Len(rows) - 1)),
                 rows[Len(rows)])

Returned(rows) == [threw |-> FALSE, rows |-> rows]

Thrown(message) == [threw |-> TRUE, message |-> message]

convertGL(lines) ==
  LET found == { i \in 1..Len(lines) : StartsWith(Trim(lines[i]), BangSPL) }
      headerMap ==
        IF found = {} THEN <<>>
        ELSE HeaderMapOf(lines[CHOOSE i \in found : \A j \in found : i <= j])
      dataLines == SelectSeq(lines, LAMBDA line : StartsWith(line, MarkSPL))
      processedRows ==
        [n \in 1..Len(dataLines) |-> GLRow(dataLines[n], headerMap)]
  IN  IF Len(headerMap) = 0
      THEN Thrown("Invalid IIF File: Could not find '!SPL' header row definition.")
      ELSE Returned(SortRows("GL", processedRows))

NoContext ==
  [docNum |-> <<>>, date |-> <<>>, dueDate |-> <<>>, name |-> <<>>,
   terms |-> <<>>]

\* the context a TRNS data line leaves
TRNSContext(parts, currentMap) ==
  [docNum |-> getVal(parts, currentMap, << "DOCNUM" >>),
   date |-> getVal(parts, currentMap, << "DATE" >>),
   dueDate |->
     IF getVal(parts, currentMap, << "DUEDATE" >>) # <<>>
     THEN getVal(parts, currentMap, << "DUEDATE" >>)
     ELSE getVal(parts, currentMap, << "DUE DATE" >>),
   name |-> getVal(parts, currentMap, << "NAME" >>),
   terms |-> getVal(parts, currentMap, << "TERMS" >>)]

\* the row convertBills pushes for an SPL data line
BillRow(parts, currentMap, currentContext) ==
  LET rawAccnt == getVal(parts, currentMap, << "ACCNT" >>)
      amountVal == parseFloat(getVal(parts, currentMap, << "AMOUNT" >>))
      lineAmount == toFixed2(amountVal)
  IN  [BillNo |-> currentContext.docNum,
       Supplier |-> currentContext.name,
       JournalDate |-> currentContext.date,
       DueDate |-> currentContext.dueDate,
       Account |-> AccountOverride(apAccountOverrides, rawAccnt),
       Description |-> getVal(parts, currentMap, << "MEMO" >>),
       LineAmount |-> lineAmount,
       JournalNo |-> currentContext.docNum,
       Name |-> currentContext.name,
       Debit |-> IF ~amountVal.nan /\ amountVal.v > 0 THEN lineAmount
                 ELSE << "0" >>,
       Credit |-> IF ~amountVal.nan /\ amountVal.v < 0
                  THEN toFixed2(MathAbs(amountVal))
                  ELSE << "0" >>]

\* BillsLine with a context that only the first TRNS line sets
BillsLine_FirstContext(st, line) ==
  IF StartsWith(line, BangTRNS)
  THEN [st EXCEPT !.headerMapTrns = HeaderMapOf(line)]
  ELSE IF StartsWith(line, BangSPL)
  THEN [st EXCEPT !.headerMapSpl = HeaderMapOf(line)]
  ELSE IF ~StartsWith(line, MarkTRNS) /\ ~StartsWith(line, MarkSPL) THEN st
  ELSE LET isTrns == StartsWith(line, MarkTRNS)
           currentMap == IF isTrns THEN st.headerMapTrns ELSE st.headerMapSpl
           parts == Split(Trim(line), "\t")
       IN  IF Len(currentMap) = 0 THEN st
           ELSE IF isTrns
           THEN IF st.currentContext # NoContext THEN st
                ELSE [st EXCEPT !.currentContext =
                        TRNSContext(parts, currentMap)]
           ELSE IF getVal(parts, currentMap, << "ACCNT" >>) = << "0-201-0" >>
           THEN st
           ELSE [st EXCEPT !.processedRows =
                   Append(@, BillRow(parts, currentMap, st.currentContext))]

\* BillsLine without the skip of the payable account
BillsLine_KeepPayable(st, line) ==
  IF StartsWith(line, BangTRNS)
  THEN [st EXCEPT !.headerMapTrns = HeaderMapOf(line)]
  ELSE IF StartsWith(line, BangSPL)
  THEN [st EXCEPT !.headerMapSpl = HeaderMapOf(line)]
  ELSE IF ~StartsWith(line, MarkTRNS) /\ ~StartsWith(line, MarkSPL) THEN st
  ELSE LET isTrns == StartsWith(line, MarkTRNS)
           currentMap == IF isTrns THEN st.headerMapTrns ELSE st.headerMapSpl
           parts == Split(Trim(line), "\t")
       IN  IF Len(currentMap) = 0 THEN st
           ELSE IF isTrns
           THEN [st EXCEPT !.currentContext = TRNSContext(parts, currentMap)]
           ELSE [st EXCEPT !.processedRows =
                   Append(@, BillRow(parts, currentMap, st.currentContext))]

\* one turn of the single pass of convertBills
BillsLine(st, line) ==
  IF StartsWith(line, BangTRNS)
  THEN [st EXCEPT !.headerMapTrns = HeaderMapOf(line)]
  ELSE IF StartsWith(line, BangSPL)
  THEN [st EXCEPT !.headerMapSpl = HeaderMapOf(line)]
  ELSE IF ~StartsWith(line, MarkTRNS) /\ ~StartsWith(line, MarkSPL) THEN st
  ELSE LET isTrns == StartsWith(line, MarkTRNS)
           currentMap == IF isTrns THEN st.headerMapTrns ELSE st.headerMapSpl
           parts == Split(Trim(line), "\t")
       IN  IF Len(currentMap) = 0 THEN st
           ELSE IF isTrns
           THEN [st EXCEPT !.currentContext = TRNSContext(parts, currentMap)]
           ELSE IF getVal(parts, currentMap, << "ACCNT" >>) = << "0-201-0" >>
           THEN st
           ELSE [st EXCEPT !.processedRows =
                   Append(@, BillRow(parts, currentMap, st.currentContext))]

RECURSIVE BillsPass(_, _)
BillsPass(st, lines) ==
  IF lines = <<>> THEN st
  ELSE BillsPass(BillsLine(st, Head(lines)), Tail(lines))

convertBills(lines) ==
  LET end == BillsPass([headerMapTrns |-> <<>>, headerMapSpl |-> <<>>,
                        currentContext |-> NoContext,
                        processedRows |-> <<>>], lines)
  IN  Returned(SortRows("AP", end.processedRows))

convert(lines, mode) ==
  IF mode = "AP" THEN convertBills(lines) ELSE convertGL(lines)

\* the lines of the documents
SPLHeaderLine ==
  Join(<< BangSPL, << "DATE" >>, << "ACCNT" >>, << "AMOUNT" >>,
          << "DOCNUM" >>, << "MEMO" >>, << "NAME" >> >>, "\t")

\* a second declaration of the SPL columns, in another order
SPLHeaderLineAlt ==
  Join(<< BangSPL, << "DOCNUM" >>, << "AMOUNT" >>, << "ACCNT" >>,
          << "DATE" >>, << "NAME" >>, << "MEMO" >> >>, "\t")

TRNSHeaderLine ==
  Join(<< BangTRNS, << "DOCNUM" >>, << "DATE" >>, << "NAME" >>,
          << "DUEDATE" >> >>, "\t")

\* a second declaration of the TRNS columns, in another order and with the
\* other spelling of the due date column
TRNSHeaderLineAlt ==
  Join(<< BangTRNS, << "NAME" >>, << "DUE DATE" >>, << "DOCNUM" >>,
          << "DATE" >> >>, "\t")

\* what a document starts with: no declaration, the SPL columns, both
\* declarations, both declarations and a first bill of one line
Preambles ==
  { <<>>, << SPLHeaderLine >>, << TRNSHeaderLine, SPLHeaderLine >>,
    << TRNSHeaderLine, SPLHeaderLine,
       Join(<< MarkTRNS, << "B" >>, << "1", "/", "5", "/", "2", "4" >>,
               << "A" >>, << "2", "/", "5", "/", "2", "4" >> >>, "\t"),
       Join(<< MarkSPL, << "1", "/", "5", "/", "2", "4" >>, << "0-115-0" >>,
               << "2", ".", "5" >>, << "B" >>, << "A" >>, << "A" >> >>,
            "\t") >> }

\* the lines that follow them
IIFLines ==
  { Join(<< MarkTRNS, << "B" >>, << "1", "/", "5", "/", "2", "4" >>,
            << "A" >>, << "2", "/", "5", "/", "2", "4" >> >>, "\t"),
    Join(<< MarkTRNS, << "A" >>, << "1", "2", "/", "4", "/", "2", "3" >>,
            << "B" >>, << "1", "/", "4", "/", "2", "4" >> >>, "\t"),
    Join(<< MarkSPL, << "1", "/", "5", "/", "2", "4" >>, << "0-115-0" >>,
            << "2", ".", "5" >>, << "B" >>, << "A" >>, << "A" >> >>, "\t"),
    Join(<< MarkSPL, << "1", "/", "4", "/", "2", "4" >>, << "0-201-0" >>,
            << "A" >>, << "A" >>, <<>>, <<>> >>, "\t"),
    Join(<< MarkSPL, << "1", "/", "4", "/", "2", "4" >>, << "0-682-0" >>,
            << "-", "2", ".", "5" >>, << "A" >>, <<>>, << "B" >> >>, "\t"),
    SPLHeaderLineAlt,
    TRNSHeaderLineAlt,
    << " " >> \o SPLHeaderLine,
    << "E", "N", "D", "T", "R", "N", "S" >> }

\* split gives one line at least: the empty document is one empty line
Documents ==
  ({ pre \o body : pre \in Preambles, body \in SeqsUpTo(IIFLines, MaxLines) }
     \ { <<>> }) \cup { << <<>> >> }

\* ConverterService.convert, called on a document in a mode
Convert ==
  /\ converter.pc = "called"
  /\ LET out == convert(converter.iifString, converter.mode)
     IN  converter' =
           [converter EXCEPT !.pc = IF out.threw THEN "threw" ELSE "returned",
                             !.out = out]
  /\ UNCHANGED << syncVars, lookup, grouper, ingest >>

InitConvert ==
  /\ accountMap = <<>>
  /\ vendorMap = <<>>
  /\ refresh = [i \in 1..MaxRefresh |-> IdleRefresh]
  /\ statusPending = TRUE
  /\ isConnected = FALSE
  /\ mappingStats = NoStats
  /\ syncResult = NoReply
  /\ pass = IdlePass
  /\ inflight = {}
  /\ sent = <<>>
  /\ lookup = NoLookup
  /\ grouper = NoGrouper
  /\ ingest = NoIngest
  /\ converter \in [pc : {"called"}, iifString : Documents, mode : Modes,
                    out : {Returned(<<>>)}]

NextConvert == Convert

SpecConvert == InitConvert /\ [][NextConvert]_vars

(***************************************************************************)
(* The converter screen (src/unnamed/part_001): handleSetMode,             *)
(* processFile, downloadCsv, reset and the hand-over of handlePushToQBO,   *)
(* with ConverterService.toCSV.                                            *)
(*                                                                         *)
(* processFile suspends at  await file.text() : a call is a task that is   *)
(* begun and later resumed, and it converts in the conversionMode of the   *)
(* render that created it.  The mode toggle and the drop zone are rendered *)
(* only while convertedData is empty (line 245), the download, reset and   *)
(* push buttons only while it is not.                                      *)
(***************************************************************************)

\* headers of toCSV
CsvHeaders(mode) ==
  IF mode = "AP"
  THEN << << "Bill no" >>, << "Supplier" >>, << "Bill Date" >>,
          << "Due Date" >>, << "Account" >>, << "Line Amount" >>,
          << "Line Description" >> >>
  ELSE << << "JournalNo" >>, << "JournalDate" >>, << "DueDate" >>,
          << "Description" >>, << "Account" >>, << "Debit" >>, << "Credit" >>,
          << "Name" >> >>

\* fieldNames of toCSV
CsvFieldNames(mode) ==
  IF mode = "AP"
  THEN << "BillNo", "Supplier", "JournalDate", "DueDate", "Account",
          "LineAmount", "Description" >>
  ELSE << "JournalNo", "JournalDate", "DueDate", "Description", "Account",
          "Debit", "Credit", "Name" >>

\* row[field] || ''
FieldOf(row, field) == IF field \in DOMAIN row THEN row[field] ELSE <<>>

\* val.replace(/"/g, '""')
RECURSIVE EscapeQuotes(_)
EscapeQuotes(val) ==
  IF val = <<>> THEN <<>>
  ELSE (IF Head(val) = "\"" THEN << "\"", "\"" >> ELSE << Head(val) >>)
         \o EscapeQuotes(Tail(val))

\* the escaped value, in quotes if it holds a quote, a comma or a newline
CsvField(val) ==
  IF \E i \in 1..Len(val) : val[i] \in { "\"", ",", "\n" }
  THEN << "\"" >> \o EscapeQuotes(val) \o << "\"" >>
  ELSE val

toCSV(data, mode) ==
  LET fieldNames == CsvFieldNames(mode)
      headerRow == Join(CsvHeaders(mode), ",")
      rows == [n \in 1..Len(data) |->
                 Join([k \in 1..Len(fieldNames) |->
                         CsvField(FieldOf(data[n], fieldNames[k]))], ",")]
  IN  Join(<< headerRow >> \o rows, "\n")

\* the documents of the files given to the screen: a bill of one line, a
\* line whose memo holds a comma, the empty file
ScreenFiles ==
  { << TRNSHeaderLine, SPLHeaderLine,
       Join(<< MarkTRNS, << "B" >>, << "1", "/", "5", "/", "2", "4" >>,
               << "A" >>, << "2", "/", "5", "/", "2", "4" >> >>, "\t"),
       Join(<< MarkSPL, << "1", "/", "5", "/", "2", "4" >>, << "0-115-0" >>,
               << "2", ".", "5" >>, << "B" >>, << "A" >>, << "A" >> >>,
            "\t") >>,
    << SPLHeaderLine,
       Join(<< MarkSPL, << "1", "/", "4", "/", "2", "4" >>, << "0-682-0" >>,
               << "-", "2", ".", "5" >>, << "A" >>, << "A", ",", "B" >>,
               << "B" >> >>, "\t") >>,
    << <<>> >> }

IdleTask == [pc |-> "idle", mode |-> "GL", text |-> <<>>]

NoCsv == << "none" >>

NoPush == [mode |-> "none", data |-> <<>>, producedIn |-> "none"]

\* the state of the screen after the mount: General Ledger mode, no data.
\* producedIn is the mode of the convert call that gave convertedData;
\* csvOf is what the last download was made of.
MountedScreen ==
  [pc |-> "screen", conversionMode |-> "GL", convertedData |-> <<>>,
   producedIn |-> "none", errorMessage |-> "",
   tasks |-> [t \in 1..MaxFileTasks |-> IdleTask],
   csv |-> NoCsv, csvOf |-> NoPush, pushed |-> NoPush]

handleSetMode(mode) ==
  /\ converter.pc = "screen"
  /\ converter.convertedData = <<>>
  /\ converter' = [converter EXCEPT !.conversionMode = mode,
                                    !.errorMessage = ""]
  /\ UNCHANGED << syncVars, lookup, grouper, ingest >>

\* processFile up to  await file.text()  (lines 159-165)
processFile(t, text) ==
  /\ converter.pc = "screen"
  /\ converter.convertedData = <<>>
  /\ converter.tasks[t].pc = "idle"
  /\ \A u \in 1..(t - 1) : converter.tasks[u].pc # "idle"
  /\ converter' =
       [converter EXCEPT !.errorMessage = "",
                         !.convertedData = <<>>,
                         !.tasks[t] = [pc |-> "reading",
                                       mode |-> converter.conversionMode,
                                       text |-> text]]
  /\ UNCHANGED << syncVars, lookup, grouper, ingest >>

\* processFile from the resumption on (lines 165-177)
processFileResume(t) ==
  /\ converter.pc = "screen"
  /\ converter.tasks[t].pc = "reading"
  /\ LET task == converter.tasks[t]
         out == convert(task.text, task.mode)
         done == [converter EXCEPT !.tasks[t].pc = "done"]
     IN  converter' =
           IF out.threw
           THEN [done EXCEPT !.errorMessage = out.message]
           ELSE IF Len(out.rows) = 0
           THEN [done EXCEPT
                   !.errorMessage = "No valid transactions found in file."]
           ELSE [done EXCEPT !.convertedData = out.rows,
                             !.producedIn = task.mode]
  /\ UNCHANGED << syncVars, lookup, grouper, ingest >>

\* downloadCsv (lines 184-200): the content of the file offered
downloadCsv ==
  /\ converter.pc = "screen"
  /\ converter.convertedData # <<>>
  /\ converter' = [converter EXCEPT
                     !.csv = toCSV(converter.convertedData, "GL"),
                     !.csvOf = [mode |-> converter.conversionMode,
                                data |-> converter.convertedData,
                                producedIn |-> converter.producedIn]]
  /\ UNCHANGED << syncVars, lookup, grouper, ingest >>

reset ==
  /\ converter.pc = "screen"
  /\ converter.convertedData # <<>>
  /\ converter' = [converter EXCEPT !.convertedData = <<>>,
                                    !.producedIn = "none",
                                    !.errorMessage = ""]
  /\ UNCHANGED << syncVars, lookup, grouper, ingest >>

\* handlePushToQBO up to the invocation of 'qb:sync' (lines 88-98): the
\* message it sends
InvokeQbSync ==
  /\ converter.pc = "screen"
  /\ isConnected
  /\ converter.convertedData # <<>>
  /\ converter' = [converter EXCEPT
                     !.pushed = [mode |-> converter.conversionMode,
                                 data |-> converter.convertedData,
                                 producedIn |-> converter.producedIn]]
  /\ UNCHANGED << syncVars, lookup, grouper, ingest >>

InitScreen ==
  /\ accountMap = <<>>
  /\ vendorMap = <<>>
  /\ refresh = [i \in 1..MaxRefresh |-> IdleRefresh]
  /\ statusPending = FALSE
  /\ isConnected = TRUE
  /\ mappingStats = [accounts |-> 0, vendors |-> 0]
  /\ syncResult = NoReply
  /\ pass = IdlePass
  /\ inflight = {}
  /\ sent = <<>>
  /\ lookup = NoLookup
  /\ grouper = NoGrouper
  /\ ingest = NoIngest
  /\ converter = MountedScreen

NextScreen ==
  \/ \E mode \in Modes : handleSetMode(mode)
  \/ \E t \in 1..MaxFileTasks, text \in ScreenFiles : processFile(t, text)
  \/ \E t \in 1..MaxFileTasks : processFileResume(t)
  \/ downloadCsv
  \/ reset
  \/ InvokeQbSync

SpecScreen == InitScreen /\ [][NextScreen]_vars

(***************************************************************************)
(* The callback of rows.map in syncJournalEntries (lines 172-187) on one   *)
(* row: the Line element it returns, or the throw for an unknown account.  *)
(***************************************************************************)

\* the texts of a Debit or Credit field
AmountTexts ==
  { <<>>, << "0" >>, << "2", ".", "5", "0" >>, << "1", ".", "0", "4" >>,
    << "0", ".", "0", "0" >>, << "1", "0", ".", "0", "0" >> }

\* row.Debit || row.Credit
DebitOrCredit(row) == IF row.Debit # <<>> THEN row.Debit ELSE row.Credit

\* row.Debit !== "0" && row.Debit !== "" ? "Debit" : "Credit"
PostingTypeOf(row) ==
  IF row.Debit # << "0" >> /\ row.Debit # <<>> THEN "Debit" ELSE "Credit"

JournalLineOf(map, row) ==
  LET amount == parseFloat(DebitOrCredit(row))
      accountId == findAccountId(map, row.Account)
  IN  IF accountId = Null
      THEN [ok |-> FALSE,
            message |-> << "Account", row.Account, "not found" >>]
      ELSE [ok |-> TRUE,
            Line |-> [Description |-> row.Description, Amount |-> amount,
                      PostingType |-> PostingTypeOf(row),
                      AccountRef |-> accountId]]

\* the rows the callback is called on
JournalLineRows ==
  { [JournalNo |-> << "A" >>, Description |-> <<>>, Account |-> a,
     Debit |-> d, Credit |-> c] :
      a \in AccountLabels, d \in AmountTexts, c \in AmountTexts }

JournalLine ==
  /\ pass.pc = "line"
  /\ pass' = [pass EXCEPT !.pc = "mapped",
                          !.line = JournalLineOf(accountMap, pass.row)]
  /\ UNCHANGED << accountMap, vendorMap, refresh, statusPending, isConnected,
                  mappingStats, syncResult, inflight, sent, lookup, grouper,
                  ingest, converter >>

InitLine ==
  /\ accountMap = StoreAccounts(<<>>, << [Name |-> << "1" >>, Id |-> 1] >>)
  /\ vendorMap = <<>>
  /\ refresh = [i \in 1..MaxRefresh |-> IdleRefresh]
  /\ statusPending = FALSE
  /\ isConnected = TRUE
  /\ mappingStats = [accounts |-> 1, vendors |-> 0]
  /\ syncResult = NoReply
  /\ pass \in [pc : {"line"}, row : JournalLineRows, line : {[ok |-> FALSE]}]
  /\ inflight = {}
  /\ sent = <<>>
  /\ lookup = NoLookup
  /\ grouper = NoGrouper
  /\ ingest = NoIngest
  /\ converter = NoConverter

NextLine == JournalLine

SpecLine == InitLine /\ [][NextLine]_vars

(***************************************************************************)
(* Properties of the sync pass.                                            *)
(***************************************************************************)
PassEnded == pass.pc \in {"returned", "threw"}

\* the position of a document number in Object.entries(groups)
KeyPos(docNo) == CHOOSE k \in 1..Len(pass.keys) : pass.keys[k] = docNo

\* the rows of the k-th document group, as positions in the rows passed
GroupOf(k) == ObjGet(pass.groups, pass.keys[k])

\* the NameResolver rule: some key equals the trimmed label, is a prefix of
\* it or has it as a prefix
Overlaps(map, label) ==
  \E n \in 1..Len(map) :
    \/ map[n].k = Trim(label)
    \/ StartsWith(map[n].k, Trim(label))
    \/ StartsWith(Trim(label), map[n].k)

GroupUnresolved(k) ==
  \/ \E n \in 1..Len(GroupOf(k)) :
       ~Overlaps(accountMap, pass.data[GroupOf(k)[n]].Account)
  \/ /\ pass.mode = "AP"
     /\ ~Overlaps(vendorMap, pass.data[GroupOf(k)[1]].Supplier)

ErrorsOf(docNo) ==
  { j \in 1..Len(pass.results.errors) : pass.results.errors[j].doc = docNo }

SentOf(docNo) == { j \in 1..Len(sent) : sent[j].DocNumber = docNo }

\* C1: a pass that has ended has attempted each of the N document groups
\* of its rows exactly once: success + failed = N, and the error list
\* holds one string per failed group, which names that group's document.
C1_EveryGroupAttemptedOnce ==
  PassEnded =>
    /\ pass.results.success + pass.results.failed = pass.documents
    /\ Len(pass.results.errors) = pass.results.failed
    /\ \A k \in 1..Len(pass.keys) :
         Cardinality(ErrorsOf(pass.keys[k])) + Cardinality(SentOf(pass.keys[k]))
           >= 1

\* C2: a sync pass never raises to its caller; the 'qb:sync' handler
\* answers with the pass's result and not with a whole-batch error.
C2_PassNeverRaises ==
  /\ pass.pc # "threw"
  /\ syncResult.error = <<>>

C4_OneRequestAtATime ==
  /\ Cardinality(inflight) <= 1
  /\ (inflight # {} =>
        /\ pass.pc = "await"
        /\ sent # <<>>
        /\ inflight = {sent[Len(sent)].DocNumber}
        /\ sent[Len(sent)].DocNumber = pass.keys[pass.idx])
  /\ \A a, b \in 1..Len(sent) :
       a < b => KeyPos(sent[a].DocNumber) < KeyPos(sent[b].DocNumber)

C4_Witness ==
  /\ Len(sent) = 2
  /\ inflight # {}
  /\ pass.results.success + pass.results.failed >= 1

\* the rows passed whose document key is docNo, in row order
RowsWithKey(docNo) ==
  LET field == IF pass.mode = "GL" THEN "JournalNo" ELSE "BillNo"
  IN  SelectSeq([i \in 1..Len(pass.data) |-> i],
                LAMBDA i : pass.data[i][field] = docNo)

\* C9: at most one document is submitted per document key; its lines are
\* the rows having that key, one line per row in row order.
C9_OneDocumentPerKey ==
  /\ \A a, b \in 1..Len(sent) : sent[a].DocNumber = sent[b].DocNumber => a = b
  /\ \A a \in 1..Len(sent) :
       [n \in 1..Len(sent[a].Line) |-> sent[a].Line[n].row]
         = RowsWithKey(sent[a].DocNumber)

C9_Witness ==
  /\ Len(sent) = 2
  /\ \E a \in 1..Len(sent) :
       /\ Len(sent[a].Line) = 2
       /\ sent[a].Line[1].row = 1
       /\ sent[a].Line[2].row = 3

\* C8: a bill is not failed as 'vendor not found' when its supplier's name
\* equals a vendor-map key after trimming, is a prefix of one or has one as
\* a prefix.
C8_SupplierResolvedByPrefix ==
  \A j \in 1..Len(pass.results.errors) :
    pass.results.errors[j].message[1] = "Vendor" =>
      ~Overlaps(vendorMap, pass.results.errors[j].message[2])


(***************************************************************************)
(* Properties of the mapping refresh.                                      *)
(***************************************************************************)
KeySet(map) == { map[n].k : n \in 1..Len(map) }

RefreshPending == \E i \in 1..MaxRefresh : refresh[i].pc \in {"accounts", "vendors"}

RefreshCompleted ==
  \/ mappingStats # NoStats
  \/ \E i \in 1..MaxRefresh : refresh[i].pc = "done"

\* C5: a sync pass begins only after a refresh has completed both remote
\* queries and while no refresh is pending, and no step that leaves a pass
\* suspended changes accountMap or vendorMap.
C5_RefreshBeforeSync ==
  [][ /\ (pass' # pass /\ pass'.pc \in {"try", "threw"} =>
            RefreshCompleted /\ ~RefreshPending)
      /\ (pass.pc \in {"try", "await"} /\ pass'.pc \in {"try", "await"} =>
            accountMap' = accountMap /\ vendorMap' = vendorMap) ]_vars

\* C6: when a refresh completes, accountMap and vendorMap hold exactly the
\* names its two queries returned.
C6_MapsRebuiltByRefresh ==
  [][ \A i \in 1..MaxRefresh :
        refresh[i].pc = "vendors" /\ refresh'[i].pc = "done" =>
          /\ KeySet(accountMap') = refresh'[i].acc
          /\ KeySet(vendorMap') = refresh'[i].ven ]_vars


(***************************************************************************)
(* Properties of findAccountId.                                            *)
(***************************************************************************)
\* The identifier the NameResolver rule gives a label when the keys are
\* searched in the order keyOrder: the key equal to the trimmed label if
\* there is one, else the first key that is a prefix of the trimmed label or
\* has it as a prefix, else not-found.
ResolvedIn(keyOrder, map, label) ==
  LET clean == Trim(label)
      exact == { n \in 1..Len(keyOrder) : keyOrder[n] = clean }
      overlap == { n \in 1..Len(keyOrder) :
                     \/ StartsWith(keyOrder[n], clean)
                     \/ StartsWith(clean, keyOrder[n]) }
  IN  IF exact # {} THEN ObjGet(map, clean)
      ELSE IF overlap # {}
      THEN ObjGet(map, keyOrder[CHOOSE n \in overlap : \A m \in overlap : n <= m])
      ELSE Null

SecondsOfDay(dateTime) ==
  dateTime.time.h * 3600 + dateTime.time.mi * 60 + dateTime.time.s

\* the calendar date a transaction is attributed to under the 16:00 rule,
\* written as the date label
ReportingDate(dateTime) ==
  IF SecondsOfDay(dateTime) >= 16 * 3600
  THEN toLocaleDateString(SetDateNextDay(dateTime.date))
  ELSE toLocaleDateString(dateTime.date)

\* the groups that hold the transaction of that id
GroupsHolding(id) ==
  { g \in 1..Len(grouper.dailyGroups) :
      \E n \in 1..Len(grouper.dailyGroups[g].transactions) :
        grouper.dailyGroups[g].transactions[n].id = id }

\* C10: in the result every transaction lies in one group, whose date is
\* the next calendar date when its local time is 16:00:00 or later and its
\* own calendar date otherwise; a transaction before 16:00 and one at or
\* after 16:00 of the same calendar date lie in different groups, and a
\* list of just these two gives exactly two groups.
C10_SixteenHourCutover ==
  grouper.pc = "returned" =>
    /\ \A n \in 1..Len(grouper.transactions) :
         /\ Cardinality(GroupsHolding(n)) = 1
         /\ \A g \in GroupsHolding(n) :
              grouper.dailyGroups[g].date
                = ReportingDate(grouper.transactions[n].dateTime)
    /\ \A a, b \in 1..Len(grouper.transactions) :
         ( /\ grouper.transactions[a].dateTime.date
                = grouper.transactions[b].dateTime.date
           /\ SecondsOfDay(grouper.transactions[a].dateTime) < 16 * 3600
           /\ SecondsOfDay(grouper.transactions[b].dateTime) >= 16 * 3600 )
         => /\ GroupsHolding(a) \cap GroupsHolding(b) = {}
            /\ (Len(grouper.transactions) = 2 => Len(grouper.dailyGroups) = 2)

\* 16:00:00 and 15:59:59 of one calendar date, grouped into two groups
C10_Witness ==
  /\ grouper.pc = "returned"
  /\ Len(grouper.transactions) = 2
  /\ grouper.transactions[1].dateTime.date = grouper.transactions[2].dateTime.date
  /\ grouper.transactions[1].dateTime.time = [h |-> 16, mi |-> 0, s |-> 0]
  /\ grouper.transactions[2].dateTime.time = [h |-> 15, mi |-> 59, s |-> 59]
  /\ Len(grouper.dailyGroups) = 2
  /\ grouper.dailyGroups[1].date
       = toLocaleDateString(SetDateNextDay(grouper.transactions[1].dateTime.date))


(***************************************************************************)
(* Properties of the subtotals of a DailyGroup.                            *)
(***************************************************************************)
\* the groups a call holds: those emitted and the one being filled
GroupsOfCall ==
  IF grouper.pc = "forEach" /\ ~grouper.currentGroup.isNull
  THEN Append(grouper.dailyGroups, grouper.currentGroup)
  ELSE grouper.dailyGroups

\* the sum of whole cents only, NaN when an addend is NaN
RECURSIVE WholeCents(_, _)
WholeCents(txs, field) ==
  IF txs = <<>> THEN Num(0)
  ELSE NumAdd(WholeCents(Tail(txs), field), MathRoundCents(Head(txs)[field]))

\* C11: after every append and in the result, each group's subtotal,
\* subtotalFees and subtotalNet are the sums of the whole cents of the
\* amount, fee and net of its transactions (NaN when one of them is NaN),
\* and count is the number of its transactions.
C11_SubtotalsAreCentSums ==
  grouper.pc \in {"forEach", "returned"} =>
    \A n \in 1..Len(GroupsOfCall) :
      LET g == GroupsOfCall[n]
      IN  /\ g.count = Len(g.transactions)
          /\ g.subtotal = CentsToNumber(WholeCents(g.transactions, "amount"))
          /\ g.subtotalFees = CentsToNumber(WholeCents(g.transactions, "fee"))
          /\ g.subtotalNet = CentsToNumber(WholeCents(g.transactions, "net"))

\* a returned group of two transactions whose amounts carry parts of a
\* cent: 1.044 + 0.104 gives 1.14, where the plain sum would give 1.148
C11_Witness ==
  /\ grouper.pc = "returned"
  /\ \E n \in 1..Len(grouper.dailyGroups) :
       LET g == grouper.dailyGroups[n]
       IN  /\ g.count = 2
           /\ g.transactions[1].amount = Num(1044)
           /\ g.transactions[2].amount = Num(104)
           /\ g.subtotal = Num(1140)


(***************************************************************************)
(* Properties of parseShopifyCSV and parsePaypalCSV.                       *)
(***************************************************************************)
\* a date label as a number that grows with the date
LabelOrder(label) == label[3] * 10000 + label[1] * 100 + label[2]

\* C12: in the ReportSummary of a call that resolved, no two groups carry
\* the same date label and the groups that carry a date are ordered newest
\* date first.
C12_GroupsNewestFirstAndUnique ==
  ingest.pc = "resolved" =>
    LET g == ingest.summary.dailyGroups
    IN  \A i, j \in 1..Len(g) :
          i < j => /\ g[i].date # g[j].date
                   /\ (g[i].date # InvalidDateLabel /\ g[j].date # InvalidDateLabel)
                        => LabelOrder(g[i].date) > LabelOrder(g[j].date)

\* C13: a call never resolves with a ReportSummary whose transactionCount
\* is 0.
C13_ZeroRowsRejected ==
  ingest.pc = "resolved" => ingest.summary.transactionCount > 0

\* the transactions of the files whose task is done
RowsOfParsedFiles ==
  { n \in 1..Len(ingest.allTransactions) :
      ingest.tasks[ingest.allTransactions[n].sourceFile] = "done" }

\* C14: a file whose parsing fails does not make the call fail: while other
\* files are still being parsed the call has not rejected, and once every
\* task has settled and a file that parsed gave transactions, the call has
\* resolved with the transactions of the files that parsed.
C14_FileFailureIsLocal ==
  (ingest.pc # "idle" /\ \E f \in 1..Len(ingest.files) : ingest.tasks[f] = "failed")
    => /\ (\E f \in 1..Len(ingest.files) : ingest.tasks[f] = "pending")
            => ingest.pc = "parsing"
       /\ ( /\ \A f \in 1..Len(ingest.files) : ingest.tasks[f] # "pending"
            /\ RowsOfParsedFiles # {} )
            => /\ ingest.pc = "resolved"
               /\ ingest.summary.transactionCount = Cardinality(RowsOfParsedFiles)

\* the row a transaction was made from
SourceRowOf(t) == ingest.files[t.sourceFile][t.sourceRow]

\* the net, the amount and the fee the source row supplies (0 when the
\* cell is empty)
SourceNet(t) == cleanFloat(SourceRowOf(t).Net)

SourceAmount(t) ==
  cleanFloat(IF ingest.kind = "shopify" THEN SourceRowOf(t).Amount
             ELSE SourceRowOf(t).Gross)

SourceFee(t) == cleanFloat(SourceRowOf(t).Fee)

\* C15: for either source kind, a transaction's net is amount + fee in
\* whole cents when the source net is exactly zero (or absent) and amount
\* or fee is not zero, and the source's net otherwise.
C15_NetSuppliedOrDerived ==
  ingest.pc # "idle" =>
    \A n \in 1..Len(ingest.allTransactions) :
      LET t == ingest.allTransactions[n]
      IN  IF StrictEq(SourceNet(t), Num(0))
             /\ (~StrictEq(t.amount, Num(0)) \/ ~StrictEq(t.fee, Num(0)))
          THEN t.net = CentsToNumber(NumAdd(MathRoundCents(t.amount),
                                            MathRoundCents(t.fee)))
          ELSE t.net = SourceNet(t)

\* C16: for both source kinds every accepted transaction has an amount, a
\* fee and a net that are numbers (not NaN).
C16_AcceptedMoneyIsNumeric ==
  ingest.pc # "idle" =>
    \A n \in 1..Len(ingest.allTransactions) :
      LET t == ingest.allTransactions[n]
      IN  ~t.amount.nan /\ ~t.fee.nan /\ ~t.net.nan

Withdrawals == {"General Withdrawal", "User Initiated Withdrawal"}

\* the row n of file f became a transaction
IsAccepted(f, n) ==
  \E k \in 1..Len(ingest.allTransactions) :
    /\ ingest.allTransactions[k].sourceFile = f
    /\ ingest.allTransactions[k].sourceRow = n

\* amount, fee and net of a row's cells are all zero
AllZero(row) ==
  /\ StrictEq(cleanFloat(row.Gross), Num(0))
  /\ StrictEq(cleanFloat(row.Fee), Num(0))
  /\ StrictEq(cleanFloat(row.Net), Num(0))

\* C17: for PayPal no accepted transaction is a withdrawal and none has
\* amount, fee and net all zero; every other row of a parsed file that has
\* a date and a time is accepted.
C17_PaypalExclusions ==
  (ingest.pc # "idle" /\ ingest.kind = "paypal") =>
    /\ \A n \in 1..Len(ingest.allTransactions) :
         LET t == ingest.allTransactions[n]
         IN  /\ t.type \notin Withdrawals
             /\ ~(StrictEq(t.amount, Num(0)) /\ StrictEq(t.fee, Num(0))
                    /\ StrictEq(t.net, Num(0)))
    /\ \A f \in 1..Len(ingest.files) :
         ingest.tasks[f] = "done" =>
           \A n \in 1..Len(ingest.files[f]) :
             LET row == ingest.files[f][n]
             IN  ( /\ ~IsEmptyCell(row.Date) /\ ~IsEmptyCell(row.Time)
                   /\ row.Type \notin Withdrawals
                   /\ ~AllZero(row) )
                 => IsAccepted(f, n)

\* a parsed PayPal file whose row is a withdrawal with a date, a time and
\* an amount, and no transaction; and one whose payment row was accepted
C17_Witness ==
  /\ ingest.pc = "resolved"
  /\ ingest.kind = "paypal"
  /\ LET row == ingest.files[1][1]
     IN  /\ row.Type = "User Initiated Withdrawal"
         /\ ~IsEmptyCell(row.Date) /\ ~IsEmptyCell(row.Time)
         /\ ~AllZero(row)
  /\ ingest.allTransactions = <<>>

\* the counter in a transaction's identifier
HasCounter(t, k) == t.id = TemplateId(t.orderNumber, k)

\* C18: within a call the identifiers of the accepted transactions are
\* pairwise distinct, each is {reference}-{counter}, and the counters are
\* exactly 0 .. (number of accepted transactions - 1), handed out in the
\* order of acceptance, in every interleaving of the file callbacks.
C18_IdentifiersUnique ==
  ingest.pc # "idle" =>
    LET txs == ingest.allTransactions
    IN  /\ \A i, j \in 1..Len(txs) : i # j => txs[i].id # txs[j].id
        /\ \A i \in 1..Len(txs) : \E k \in 0..(Len(txs) - 1) : HasCounter(txs[i], k)
        /\ \A k \in 0..(Len(txs) - 1) : \E i \in 1..Len(txs) : HasCounter(txs[i], k)
        /\ ingest.globalEntryCounter = Len(txs)
        /\ ingest.pc # "resolved" =>
             \A i \in 1..Len(txs) : HasCounter(txs[i], i - 1)
        /\ ingest.pc = "resolved" => ingest.summary.transactionCount = Len(txs)

\* two files that both hold the reference "A", parsed second file first,
\* with a row that was not accepted in between: identifiers A-0 and A-1
C18_Witness ==
  /\ ingest.pc = "resolved"
  /\ Len(ingest.files) = 2
  /\ Len(ingest.allTransactions) = 2
  /\ \A n \in 1..2 : ingest.allTransactions[n].orderNumber = <<"A">>
  /\ \E n, m \in 1..2 :
       /\ ingest.allTransactions[n].id = <<"A", "-", "0">>
       /\ ingest.allTransactions[n].sourceFile = 2
       /\ ingest.allTransactions[m].id = <<"A", "-", "1">>
       /\ ingest.allTransactions[m].sourceFile = 1
  /\ \E f \in 1..2 : Len(ingest.files[f]) = 2

\* the place of a transaction in the order of emission
EmissionOrder(t) == CHOOSE k \in 0..MaxBatchRows : HasCounter(t, k)

\* C19: allTransactions of a resolved call is ordered by non-increasing
\* timestamp, and transactions with equal timestamps keep their order of
\* emission.
C19_SortedDescendingStable ==
  ingest.pc = "resolved" =>
    LET txs == ingest.summary.allTransactions
    IN  \A i, j \in 1..Len(txs) :
          (i < j /\ IsValidDate(txs[i].dateTime) /\ IsValidDate(txs[j].dateTime))
            => /\ getTime(txs[i].dateTime) >= getTime(txs[j].dateTime)
               /\ getTime(txs[i].dateTime) = getTime(txs[j].dateTime)
                    => EmissionOrder(txs[i]) < EmissionOrder(txs[j])

(***************************************************************************)
(* Properties of ConverterService.convert.                                 *)
(***************************************************************************)
\* the document has a line that declares the columns of a record type the
\* mode reads: "!SPL" in GL mode, "!SPL" or "!TRNS" in AP mode
HasHeaderDeclaration(lines, mode) ==
  \E i \in 1..Len(lines) :
    \/ StartsWith(Trim(lines[i]), BangSPL)
    \/ mode = "AP" /\ StartsWith(Trim(lines[i]), BangTRNS)

\* C20: in GL mode and in AP mode alike, convert on a document without a
\* header-declaration line for the record type ends in a thrown format
\* error and returns no row list, not even an empty one
C20_NoHeaderIsFormatError ==
  converter.pc \in {"returned", "threw"}
    /\ ~HasHeaderDeclaration(converter.iifString, converter.mode)
  => converter.pc = "threw"

\* the last line before line i that starts with the marker, 0 when none
LastBefore(lines, i, mark) ==
  LET S == { j \in 1..(i - 1) : StartsWith(lines[j], mark) }
  IN  IF S = {} THEN 0 ELSE CHOOSE j \in S : \A k \in S : k <= j

\* the column positions in force for line i of the kind of the declaration
DeclaredBefore(lines, i, bang) ==
  IF LastBefore(lines, i, bang) = 0 THEN <<>>
  ELSE HeaderMapOf(lines[LastBefore(lines, i, bang)])

\* the cell of line i in the column, by the declaration in force
CellOf(lines, i, bang, colName) ==
  getVal(Split(Trim(lines[i]), "\t"), DeclaredBefore(lines, i, bang), colName)

\* the SPL lines of a document that convertBills is to emit a row for
EmittingLines(lines) ==
  { i \in 1..Len(lines) :
      /\ StartsWith(lines[i], MarkSPL)
      /\ LastBefore(lines, i, BangSPL) # 0
      /\ CellOf(lines, i, BangSPL, << "ACCNT" >>) # << "0-201-0" >> }

\* document number, date, due date and name of the most recent TRNS line
\* before line i, and the memo of line i
ContextAt(lines, i) ==
  LET j == LastBefore(lines, i, MarkTRNS)
  IN  IF j = 0
      THEN << <<>>, <<>>, <<>>, <<>>, CellOf(lines, i, BangSPL, << "MEMO" >>) >>
      ELSE << CellOf(lines, j, BangTRNS, << "DOCNUM" >>),
              CellOf(lines, j, BangTRNS, << "DATE" >>),
              IF CellOf(lines, j, BangTRNS, << "DUEDATE" >>) # <<>>
              THEN CellOf(lines, j, BangTRNS, << "DUEDATE" >>)
              ELSE CellOf(lines, j, BangTRNS, << "DUE DATE" >>),
              CellOf(lines, j, BangTRNS, << "NAME" >>),
              CellOf(lines, i, BangSPL, << "MEMO" >>) >>

ContextOfRow(row) ==
  << row.BillNo, row.JournalDate, row.DueDate, row.Supplier, row.Description >>

\* C21: in accounts-payable mode the rows carry, line for line, the document
\* number, date, due date and name of the most recent TRNS line before their
\* SPL line: each combination occurs in the rows as often as among the
\* emitting SPL lines
C21_RowsCarryLatestContext ==
  converter.pc = "returned" /\ converter.mode = "AP"
  => LET lines == converter.iifString
         rows == converter.out.rows
     IN  \A t \in { ContextAt(lines, i) : i \in EmittingLines(lines) }
                    \cup { ContextOfRow(rows[n]) : n \in 1..Len(rows) } :
           Cardinality({ i \in EmittingLines(lines) : ContextAt(lines, i) = t })
             = Cardinality({ n \in 1..Len(rows) : ContextOfRow(rows[n]) = t })

\* a row was emitted for an SPL line that two TRNS lines of different
\* content precede
C21_Witness ==
  /\ converter.pc = "returned" /\ converter.mode = "AP"
  /\ LET lines == converter.iifString
     IN  \E i \in EmittingLines(lines) :
           \E j \in 1..(i - 1) :
             /\ StartsWith(lines[j], MarkTRNS)
             /\ j < LastBefore(lines, i, MarkTRNS)
             /\ LastBefore(lines, j, BangTRNS) # 0
             /\ lines[j] # lines[LastBefore(lines, i, MarkTRNS)]

\* C22: in accounts-payable mode the rows are as many as the SPL lines that
\* are read under a column declaration and whose account is not the payable
\* account "0-201-0"; a TRNS line and a payable SPL line add no row, and no
\* row is on the payable account
C22_OneRowPerExpenseLine ==
  converter.pc = "returned" /\ converter.mode = "AP"
  => /\ Len(converter.out.rows)
          = Cardinality(EmittingLines(converter.iifString))
     /\ \A n \in 1..Len(converter.out.rows) :
          converter.out.rows[n].Account
            # AccountOverride(apAccountOverrides, << "0-201-0" >>)

\* a document with a declared TRNS line, a declared payable SPL line and
\* another declared SPL line was converted to one row
C22_Witness ==
  /\ converter.pc = "returned" /\ converter.mode = "AP"
  /\ Len(converter.out.rows) = 1
  /\ LET lines == converter.iifString
     IN  /\ \E i \in 1..Len(lines) :
               /\ StartsWith(lines[i], MarkTRNS)
               /\ LastBefore(lines, i, BangTRNS) # 0
         /\ \E i \in 1..Len(lines) :
               /\ StartsWith(lines[i], MarkSPL)
               /\ LastBefore(lines, i, BangSPL) # 0
               /\ CellOf(lines, i, BangSPL, << "ACCNT" >>) = << "0-201-0" >>

\* the first line that declares the SPL columns for convertGL, 0 when none
FirstSPLDeclaration(lines) ==
  LET S == { i \in 1..Len(lines) : StartsWith(Trim(lines[i]), BangSPL) }
  IN  IF S = {} THEN 0 ELSE CHOOSE i \in S : \A j \in S : i <= j

\* the data lines of convertGL
GLDataLines(lines) == { i \in 1..Len(lines) : StartsWith(lines[i], MarkSPL) }

\* the amount of data line i as convertGL reads it
GLAmountOf(lines, i) ==
  parseFloat(getVal(Split(Trim(lines[i]), "\t"),
                    HeaderMapOf(lines[FirstSPLDeclaration(lines)]),
                    << "AMOUNT" >>))

\* a number of cents written with two decimals
TwoDecimals(cents) ==
  NumberToString(cents \div 100) \o << "." >>
    \o NumberToString((cents % 100) \div 10) \o NumberToString(cents % 10)

\* the Debit and Credit a signed amount is to give
DebitCreditOf(x) ==
  IF ~x.nan /\ x.v > 0 THEN << TwoDecimals((x.v + 5) \div 10), <<>> >>
  ELSE IF ~x.nan /\ x.v < 0 THEN << <<>>, TwoDecimals((5 - x.v) \div 10) >>
  ELSE << <<>>, <<>> >>

\* C23: in general-ledger mode no row has both Debit and Credit, and the
\* rows have, with multiplicity, the Debit and Credit of the amounts of the
\* data lines: the amount to two decimals as Debit when it is positive, its
\* absolute value as Credit when it is negative
C23_DebitOrCredit ==
  converter.pc = "returned" /\ converter.mode = "GL"
  => LET lines == converter.iifString
         rows == converter.out.rows
     IN  /\ \A n \in 1..Len(rows) :
              rows[n].Debit = <<>> \/ rows[n].Credit = <<>>
         /\ \A t \in { DebitCreditOf(GLAmountOf(lines, i)) :
                         i \in GLDataLines(lines) }
                       \cup { << rows[n].Debit, rows[n].Credit >> :
                                n \in 1..Len(rows) } :
              Cardinality({ i \in GLDataLines(lines) :
                              DebitCreditOf(GLAmountOf(lines, i)) = t })
                = Cardinality({ n \in 1..Len(rows) :
                                  << rows[n].Debit, rows[n].Credit >> = t })

\* a conversion returned a row with a Debit and a row with a Credit
C23_Witness ==
  /\ converter.pc = "returned" /\ converter.mode = "GL"
  /\ \E n \in 1..Len(converter.out.rows) :
       converter.out.rows[n].Debit = << "2", ".", "5", "0" >>
  /\ \E n \in 1..Len(converter.out.rows) :
       converter.out.rows[n].Credit = << "2", ".", "5", "0" >>

\* year, month and day of a date text "m/d/y" as one number, -1 when the
\* text is no such date
DateNumber(d) ==
  LET parts == Split(d, "/")
  IN  IF Len(parts) = 3
         /\ \A k \in 1..3 : parts[k] # <<>> /\ Range(parts[k]) \subseteq Digits
      THEN NumVal(parts[3]) * 10000 + NumVal(parts[1]) * 100 + NumVal(parts[2])
      ELSE -1

\* row a is not after row b by (document date, document number)
ByDateThenNumber(a, b) ==
  IF DateNumber(a.JournalDate) >= 0 /\ DateNumber(b.JournalDate) >= 0
       /\ DateNumber(a.JournalDate) # DateNumber(b.JournalDate)
  THEN DateNumber(a.JournalDate) < DateNumber(b.JournalDate)
  ELSE IF a.JournalDate # b.JournalDate
  THEN StringLess(a.JournalDate, b.JournalDate)
  ELSE ~StringLess(b.JournalNo, a.JournalNo)

\* the rows of a document in their order of appearance
RowsInDocumentOrder(lines, mode) ==
  IF mode = "AP"
  THEN BillsPass([headerMapTrns |-> <<>>, headerMapSpl |-> <<>>,
                  currentContext |-> NoContext, processedRows |-> <<>>],
                 lines).processedRows
  ELSE LET dataLines == SelectSeq(lines, LAMBDA l : StartsWith(l, MarkSPL))
       IN  [n \in 1..Len(dataLines) |->
              GLRow(dataLines[n],
                    HeaderMapOf(lines[FirstSPLDeclaration(lines)]))]

SortKey(mode, row) ==
  IF mode = "GL" THEN << row.JournalNo >>
  ELSE << row.JournalDate, row.JournalNo >>

\* C24: the returned list is ascending, by the derived document number in
\* general-ledger mode and by (document date, document number) in
\* accounts-payable mode, with dates in the order of time; rows of equal key
\* are in their order of appearance in the document
C24_SortedByKey ==
  converter.pc = "returned"
  => LET rows == converter.out.rows
         mode == converter.mode
     IN  /\ \A n \in 1..(Len(rows) - 1) :
              IF mode = "GL"
              THEN ~StringLess(rows[n + 1].JournalNo, rows[n].JournalNo)
              ELSE ByDateThenNumber(rows[n], rows[n + 1])
         /\ \A n \in 1..Len(rows) :
              SelectSeq(rows,
                        LAMBDA r : SortKey(mode, r) = SortKey(mode, rows[n]))
                = SelectSeq(RowsInDocumentOrder(converter.iifString, mode),
                            LAMBDA r :
                              SortKey(mode, r) = SortKey(mode, rows[n]))

\* the last line before line i that declares the SPL columns for convertGL
\* (which trims the line before it looks at it), 0 when none
LastSPLDeclarationBefore(lines, i) ==
  LET S == { j \in 1..(i - 1) : StartsWith(Trim(lines[j]), BangSPL) }
  IN  IF S = {} THEN 0 ELSE CHOOSE j \in S : \A k \in S : k <= j

\* date, account and name of data line i by the declaration in force at it
GLCellsAt(lines, i) ==
  LET map == HeaderMapOf(lines[LastSPLDeclarationBefore(lines, i)])
      parts == Split(Trim(lines[i]), "\t")
  IN  << getVal(parts, map, << "DATE" >>),
         AccountOverride(glAccountOverrides, getVal(parts, map, << "ACCNT" >>)),
         getVal(parts, map, << "NAME" >>) >>

\* document number, date, name, account and memo of SPL line i by the
\* declarations in force at it and at the TRNS line before it
APCellsAt(lines, i) ==
  << ContextAt(lines, i)[1], ContextAt(lines, i)[2], ContextAt(lines, i)[4],
     AccountOverride(apAccountOverrides,
                     CellOf(lines, i, BangSPL, << "ACCNT" >>)),
     CellOf(lines, i, BangSPL, << "MEMO" >>) >>

\* C28: in both modes the rows have, with multiplicity, the cells that the
\* data lines have under the declaration of their kind that precedes them
\* most closely: a second declaration changes the positions for the data
\* lines after it and not for those before it
C28_DeclarationInForce ==
  LET lines == converter.iifString
      rows == converter.out.rows
  IN  /\ converter.pc = "returned" /\ converter.mode = "GL"
           /\ (\A i \in GLDataLines(lines) :
                 LastSPLDeclarationBefore(lines, i) # 0)
         => \A t \in { GLCellsAt(lines, i) : i \in GLDataLines(lines) }
                       \cup { << rows[n].JournalDate, rows[n].Account,
                                 rows[n].Name >> : n \in 1..Len(rows) } :
              Cardinality({ i \in GLDataLines(lines) :
                              GLCellsAt(lines, i) = t })
                = Cardinality({ n \in 1..Len(rows) :
                                  << rows[n].JournalDate, rows[n].Account,
                                     rows[n].Name >> = t })
      /\ converter.pc = "returned" /\ converter.mode = "AP"
         => \A t \in { APCellsAt(lines, i) : i \in EmittingLines(lines) }
                       \cup { << rows[n].BillNo, rows[n].JournalDate,
                                 rows[n].Supplier, rows[n].Account,
                                 rows[n].Description >> :
                                n \in 1..Len(rows) } :
              Cardinality({ i \in EmittingLines(lines) :
                              APCellsAt(lines, i) = t })
                = Cardinality({ n \in 1..Len(rows) :
                                  << rows[n].BillNo, rows[n].JournalDate,
                                     rows[n].Supplier, rows[n].Account,
                                     rows[n].Description >> = t })

\* the transaction that was pushed as the k-th of the call (k from 0)
PushedAs(txs, k) == txs[CHOOSE i \in 1..Len(txs) : HasCounter(txs[i], k)]

\* the shared list as it was before the sort: by order of emission
PreSortList(txs) == [k \in 1..Len(txs) |-> PushedAs(txs, k - 1)]

\* row n of file f is one that the row callback pushes
RowIsPushed(f, n) ==
  ParseRow(ingest.kind, ingest.files[f][n], 0, CHOOSE now \in Nows : TRUE,
           f, n).pushed

\* C27: in every interleaving of the file tasks, the rows of each file are
\* contiguous and in file order in the list before the sort, every pushed
\* row of a parsed file is in it exactly once, and nothing else is
C27_FileRowsContiguous ==
  ingest.pc # "idle" =>
    LET txs == ingest.allTransactions
        pre == PreSortList(txs)
    IN  /\ \A i \in 1..(Len(pre) - 1) :
             IF pre[i].sourceFile = pre[i + 1].sourceFile
             THEN pre[i].sourceRow < pre[i + 1].sourceRow
             ELSE \A j \in (i + 1)..Len(pre) :
                    pre[j].sourceFile # pre[i].sourceFile
        /\ \A f \in 1..Len(ingest.files) : \A n \in 1..Len(ingest.files[f]) :
             Cardinality({ i \in 1..Len(txs) :
                             txs[i].sourceFile = f /\ txs[i].sourceRow = n })
               = IF ingest.tasks[f] = "done" /\ RowIsPushed(f, n) THEN 1 ELSE 0
        /\ \A i \in 1..Len(txs) :
             /\ txs[i].sourceFile \in 1..Len(ingest.files)
             /\ txs[i].sourceRow \in 1..Len(ingest.files[txs[i].sourceFile])

\* two files, the second parsed first, the first with two pushed rows
C27_Witness ==
  /\ ingest.pc = "resolved"
  /\ Len(ingest.files) = 2
  /\ Len(ingest.allTransactions) = 3
  /\ PushedAs(ingest.allTransactions, 0).sourceFile = 2
  /\ PushedAs(ingest.allTransactions, 1).sourceFile = 1
  /\ PushedAs(ingest.allTransactions, 2).sourceFile = 1

\* the transaction lists of the groups, one after the other
RECURSIVE ConcatGroups(_)
ConcatGroups(groups) ==
  IF groups = <<>> THEN <<>>
  ELSE Head(groups).transactions \o ConcatGroups(Tail(groups))

\* the sum of the count of the groups
RECURSIVE SumCounts(_)
SumCounts(groups) ==
  IF groups = <<>> THEN 0 ELSE Head(groups).count + SumCounts(Tail(groups))

\* the sum of the cents of a subtotal of the groups
RECURSIVE SumSubtotalCents(_, _)
SumSubtotalCents(groups, field) ==
  IF groups = <<>> THEN Num(0)
  ELSE NumAdd(SumSubtotalCents(Tail(groups), field),
              MathRoundCents(Head(groups)[field]))

\* C29: in every ReportSummary the groups partition allTransactions: their
\* lists one after the other are allTransactions, none is empty, adjacent
\* groups have different dates; transactionCount is the sum of the group
\* counts and the three totals are the cent sums of the group subtotals
C29_GroupsPartitionTransactions ==
  ingest.pc = "resolved" =>
    LET r == ingest.summary
        groups == r.dailyGroups
    IN  /\ ConcatGroups(groups) = r.allTransactions
        /\ \A n \in 1..Len(groups) : groups[n].transactions # <<>>
        /\ \A n \in 1..(Len(groups) - 1) : groups[n].date # groups[n + 1].date
        /\ r.transactionCount = SumCounts(groups)
        /\ r.totalAmount = CentsToNumber(SumSubtotalCents(groups, "subtotal"))
        /\ r.totalFees = CentsToNumber(SumSubtotalCents(groups, "subtotalFees"))
        /\ r.totalNet = CentsToNumber(SumSubtotalCents(groups, "subtotalNet"))

\* a summary of two files with two groups, one of them of two transactions,
\* and a total net of 3 * 0.78
C29_Witness ==
  /\ ingest.pc = "resolved"
  /\ Len(ingest.files) = 2
  /\ Len(ingest.summary.dailyGroups) = 2
  /\ ingest.summary.transactionCount = 3
  /\ ingest.summary.totalNet = Num(2340)
  /\ \E n \in 1..2 : ingest.summary.dailyGroups[n].subtotalNet = Num(1560)

\* C26: a journal line is a Debit line exactly when the row's Debit is
\* neither empty nor "0", a Credit line otherwise, and its amount is the
\* number in the Debit field for a Debit line, in the Credit field for a
\* Credit line (a Credit line of a row without a Credit text has no such
\* number, and nothing is asked of its amount)
C26_PostingTypeAndAmount ==
  pass.pc = "mapped" /\ pass.line.ok
  => /\ pass.line.Line.PostingType = "Debit"
          <=> pass.row.Debit \notin { <<>>, << "0" >> }
     /\ pass.line.Line.PostingType \in {"Debit", "Credit"}
     /\ pass.line.Line.PostingType = "Debit"
          => pass.line.Line.Amount = parseFloat(pass.row.Debit)
     /\ pass.line.Line.PostingType = "Credit" /\ pass.row.Credit # <<>>
          => pass.line.Line.Amount = parseFloat(pass.row.Credit)

(***************************************************************************)
(* Properties of the converter screen.                                     *)
(***************************************************************************)
\* C30: in every interleaving of file processing and mode toggling,
\* convertedData, when not empty, was produced by convert in the selected
\* conversion mode, and no push hands rows converted in one mode to the
\* sync operation of the other
C30_DataMatchesMode ==
  converter.pc = "screen"
  => /\ converter.convertedData # <<>>
          => converter.producedIn = converter.conversionMode
     /\ converter.pushed # NoPush
          => converter.pushed.producedIn = converter.pushed.mode

\* C25: the CSV offered for download has the header row and the field
\* order of the mode its rows were converted in (the accounts-payable
\* columns after an accounts-payable conversion) and, after the header, one
\* record per converted row, in row order
C25_CsvOfConversionMode ==
  converter.pc = "screen" /\ converter.csv # NoCsv
  => LET records == Split(converter.csv, "\n")
         mode == converter.csvOf.producedIn
         data == converter.csvOf.data
     IN  /\ records[1] = Join(CsvHeaders(mode), ",")
         /\ Len(records) = 1 + Len(data)
         /\ \A n \in 1..Len(data) :
              records[n + 1]
                = Join([k \in 1..Len(CsvFieldNames(mode)) |->
                          CsvField(FieldOf(data[n], CsvFieldNames(mode)[k]))],
                       ",")

====
